---- MODULE Spec2Model ----
(***************************************************************************)
(* ck-dronecalc: the physics engine (src/src/utils/physics.js), the hook   *)
(* that holds the configuration and recomputes the results on every change *)
(* (hooks/useDroneConfig.js), as a state machine.                          *)
(*                                                                         *)
(* JavaScript values are records [t, m, e, s]:                             *)
(*   t = "num"   the number m * 10^e, a decimal floating-point number with *)
(*               a four digit mantissa (1000 <= |m| <= 9999, or m = e = 0).*)
(*               Every arithmetic operation rounds its exact result to     *)
(*               four digits, as an IEEE double rounds to 53 bits.         *)
(*   t = "nan" | "inf" | "ninf"   NaN, Infinity, -Infinity                 *)
(*   t = "undef" | "null"         undefined (also: a missing key), null    *)
(*   t = "str"   the string s                                              *)
(* Negative zero is not told apart from zero.                              *)
(***************************************************************************)
EXTENDS Integers, Sequences, FiniteSets, TLC

\* ------------------------------------------------------------ numbers

Pow10(k) == <<1, 10, 100, 1000, 10000, 100000, 1000000, 10000000, 100000000, 1000000000>>[k + 1]

Abs(i) == IF i < 0 THEN -i ELSE i

Sgn(i) == IF i < 0 THEN -1 ELSE IF i > 0 THEN 1 ELSE 0

RECURSIVE NumDigits(_)
NumDigits(a) == IF a < 10 THEN 1 ELSE 1 + NumDigits(a \div 10)

Special(tag) == [t |-> tag, m |-> 0, e |-> 0, s |-> ""]

NaN == Special("nan")

Infinity == Special("inf")

NegInfinity == Special("ninf")

Undefined == Special("undef")

Null == Special("null")

Str(x) == [t |-> "str", m |-> 0, e |-> 0, s |-> x]

Zero == [t |-> "num", m |-> 0, e |-> 0, s |-> ""]

\* q * 10^e, where q has come out of a rounding with four or five digits.
Carry(sg, q, e) ==
    IF q = 10000 THEN [t |-> "num", m |-> sg * 1000, e |-> e + 1, s |-> ""]
    ELSE [t |-> "num", m |-> sg * q, e |-> e, s |-> ""]

\* M * 10^E, M # 0 with d digits, rounded to four digits (half away from zero).
Round(M, E, d) ==
    IF d > 4
    THEN Carry(Sgn(M), (Abs(M) + (Pow10(d - 4) \div 2)) \div Pow10(d - 4), E + (d - 4))
    ELSE [t |-> "num", m |-> M * Pow10(4 - d), e |-> E - (4 - d), s |-> ""]

\* The number M * 10^E rounded to four digits.
Norm(M, E) == IF M = 0 THEN Zero ELSE Round(M, E, NumDigits(Abs(M)))

\* The integer i, and the decimal literal i * 10^-k.
Num(i) == Norm(i, 0)

Dec(i, k) == Norm(i, -k)

IsNum(x) == x.t = "num"

IsNaN(x) == x.t = "nan"

IsInf(x) == x.t \in {"inf", "ninf"}

\* -1, 0, 1: the sign of a number or of an infinity.
Sign(x) == IF x.t = "inf" THEN 1 ELSE IF x.t = "ninf" THEN -1 ELSE Sgn(x.m)

InfOf(sg) == IF sg < 0 THEN NegInfinity ELSE Infinity

Neg(x) ==
    IF x.t = "num" THEN [x EXCEPT !.m = -x.m]
    ELSE IF x.t = "inf" THEN NegInfinity
    ELSE IF x.t = "ninf" THEN Infinity
    ELSE NaN

\* x + y on finite numbers: the exact sum of the aligned mantissas, rounded. An
\* addend more than five digits below the other is below half a unit in its
\* last place and leaves it unchanged.
AddNum(x, y) ==
    IF x.m = 0 THEN y
    ELSE IF y.m = 0 THEN x
    ELSE LET hi == IF x.e >= y.e THEN x ELSE y
             lo == IF x.e >= y.e THEN y ELSE x
             d == hi.e - lo.e
         IN IF d > 5 THEN hi
            ELSE Norm(hi.m * Pow10(d) + lo.m, lo.e)

\* ToNumber: undefined and a string that is no numeral give NaN, null gives 0.
ToNumber(x) ==
    IF x.t \in {"undef", "str"} THEN NaN ELSE IF x.t = "null" THEN Zero ELSE x

AddN(x, y) ==
    IF IsNaN(x) \/ IsNaN(y) THEN NaN
    ELSE IF IsInf(x) /\ IsInf(y) THEN (IF x.t = y.t THEN x ELSE NaN)
    ELSE IF IsInf(x) THEN x
    ELSE IF IsInf(y) THEN y
    ELSE AddNum(x, y)

\* x + y between numbers (no string reaches a + of the engine here).
Add(x, y) == AddN(ToNumber(x), ToNumber(y))

Sub(x, y) == AddN(ToNumber(x), Neg(ToNumber(y)))

MulN(x, y) ==
    IF IsNaN(x) \/ IsNaN(y) THEN NaN
    ELSE IF IsInf(x) \/ IsInf(y)
         THEN (IF Sign(x) * Sign(y) = 0 THEN NaN ELSE InfOf(Sign(x) * Sign(y)))
    ELSE Norm(x.m * y.m, x.e + y.e)

Mul(x, y) == MulN(ToNumber(x), ToNumber(y))

DivN(x, y) ==
    IF IsNaN(x) \/ IsNaN(y) THEN NaN
    ELSE IF IsInf(x) THEN (IF IsInf(y) THEN NaN
                           ELSE InfOf(Sign(x) * (IF Sign(y) < 0 THEN -1 ELSE 1)))
    ELSE IF IsInf(y) THEN Zero
    ELSE IF y.m = 0 THEN (IF x.m = 0 THEN NaN ELSE InfOf(Sign(x)))
    ELSE Norm(Sgn(x.m) * Sgn(y.m) * ((Abs(x.m) * 100000) \div Abs(y.m)),
              x.e - y.e - 5)

Div(x, y) == DivN(ToNumber(x), ToNumber(y))

\* JavaScript's relational operators: false whenever an operand is NaN.
LtN(x, y) ==
    IF IsNaN(x) \/ IsNaN(y) THEN FALSE
    ELSE IF x.t = "ninf" THEN y.t # "ninf"
    ELSE IF y.t = "inf" THEN x.t # "inf"
    ELSE IF x.t = "inf" \/ y.t = "ninf" THEN FALSE
    ELSE Sub(x, y).m < 0

Lt(x, y) == LtN(ToNumber(x), ToNumber(y))

Le(x, y) == ~(IsNaN(ToNumber(x)) \/ IsNaN(ToNumber(y))) /\ ~Lt(y, x)

Ge(x, y) == Le(y, x)

\* Math.max and Math.min of two arguments: NaN when either is NaN.
MathMax(x, y) == IF IsNaN(ToNumber(x)) \/ IsNaN(ToNumber(y)) THEN NaN ELSE IF Lt(x, y) THEN y ELSE x

MathMin(x, y) == IF IsNaN(ToNumber(x)) \/ IsNaN(ToNumber(y)) THEN NaN ELSE IF Lt(y, x) THEN y ELSE x

RECURSIVE ISqrtFrom(_, _, _)
\* The largest r in lo..hi with r * r <= n (hi * hi fits the integers).
ISqrtFrom(n, lo, hi) ==
    IF lo >= hi THEN lo
    ELSE LET mid == (lo + hi + 1) \div 2
         IN IF mid * mid <= n THEN ISqrtFrom(n, mid, hi) ELSE ISqrtFrom(n, lo, mid - 1)

\* Math.sqrt: NaN below zero.
MathSqrt(x) ==
    IF x.t \notin {"num", "inf"} THEN NaN
    ELSE IF x.t = "inf" THEN Infinity
    ELSE IF x.m < 0 THEN NaN
    ELSE IF x.m = 0 THEN Zero
    ELSE LET k == IF x.e % 2 = 0 THEN 4 ELSE 5
             n == x.m * Pow10(k)
         IN Norm(ISqrtFrom(n, 0, 46340), (x.e - k) \div 2)

RECURSIVE PowInt(_, _)
\* Math.pow(x, k) for a whole k >= 1.
PowInt(x, k) == IF k = 1 THEN x ELSE Mul(PowInt(x, k - 1), x)

RECURSIVE ExpSeries(_, _, _, _)
\* sum + term + term * y / (n + 1) + ...: the Taylor series of e^y for y >= 0,
\* summed until a term no longer changes the sum.
ExpSeries(y, n, term, sum) ==
    LET next == Add(sum, term)
    IN IF next = sum \/ n > 60 THEN sum
       ELSE ExpSeries(y, n + 1, Div(Mul(term, y), Num(n + 1)), next)

\* Math.exp; e^-y is 1 / e^y.
MathExp(x) ==
    IF x.t = "inf" THEN Infinity
    ELSE IF x.t = "ninf" THEN Zero
    ELSE IF x.t # "num" THEN NaN
    ELSE IF x.m < 0 THEN Div(Num(1), ExpSeries(Neg(x), 0, Num(1), Zero))
    ELSE ExpSeries(x, 0, Num(1), Zero)

RECURSIVE LnSeries(_, _, _, _)
\* -(u + u^2/2 + u^3/3 + ...) = ln(1 - u) for |u| < 1.
LnSeries(u, n, upow, sum) ==
    LET next == Sub(sum, Div(upow, Num(n)))
    IN IF next = sum \/ n > 60 THEN sum
       ELSE LnSeries(u, n + 1, Mul(upow, u), next)

\* Math.pow(b, x) = e^(x ln b) for a base 0 < b < 2 (the engine's only base that
\* is raised to a fraction is 1 - L * alt / T0, within [0.75, 1]).
MathPow(b, x) ==
    IF b.t # "num" \/ x.t # "num" THEN NaN
    ELSE LET u == Sub(Num(1), b)
         IN IF u.m = 0 THEN Num(1)
            ELSE MathExp(Mul(x, LnSeries(u, 1, u, Zero)))

\* ------------------------------------------------ JavaScript operators

\* ToBoolean: undefined, null, NaN, 0 and "" are falsy.
Truthy(x) ==
    ~(x.t \in {"undef", "null", "nan"} \/ (x.t = "num" /\ x.m = 0) \/ (x.t = "str" /\ x.s = ""))

\* A read that keeps what the configuration holds, missing or not.
KeepSupplied(x, d) == x

\* x || d
OrElse(x, d) == IF Truthy(x) THEN x ELSE d

\* x ?? d
Nullish(x, d) == IF x.t \in {"undef", "null"} THEN d ELSE x

\* ------------------------------------------------ physics.js: constants

SEA_LEVEL_PRESSURE == Num(101325)

SEA_LEVEL_TEMP == Dec(28815, 2)

LAPSE_RATE == Dec(65, 4)

AIR_GAS_CONSTANT == Dec(287058, 3)

GRAVITY == Dec(980665, 5)

MOLAR_MASS_AIR == Dec(289644, 7)

UNIVERSAL_GAS_CONSTANT == Dec(831447, 5)

\* An object's property that is not its own is looked up on Object.prototype:
\* these names give a function, which is truthy and has none of the table's fields.
ObjectPrototypeKeys == {"constructor", "toString", "valueOf", "hasOwnProperty"}

\* AWG_RESISTANCE[awg]: ohm per metre, undefined for a key that is not in the table.
AwgLookup(awg) ==
    IF awg = Num(10) THEN Dec(3277, 6)
    ELSE IF awg = Num(12) THEN Dec(5211, 6)
    ELSE IF awg = Num(14) THEN Dec(8286, 6)
    ELSE IF awg = Num(16) THEN Dec(1317, 5)
    ELSE IF awg = Num(18) THEN Dec(2095, 5)
    ELSE IF awg = Num(20) THEN Dec(3331, 5)
    ELSE IF awg = Num(22) THEN Dec(5296, 5)
    ELSE IF awg = Num(26) THEN Dec(668, 4)
    ELSE IF awg.t = "str" /\ awg.s \in ObjectPrototypeKeys THEN Str("function")
    ELSE Undefined

ChemRecord(nominal, max, min) == [nominal |-> nominal, max |-> max, min |-> min]

\* CHEMISTRY[chemistry] || CHEMISTRY.LiPo
ChemistryLookup(chemistry) ==
    IF chemistry = Str("LiPo") THEN ChemRecord(Dec(37, 1), Dec(42, 1), Dec(33, 1))
    ELSE IF chemistry = Str("Li-ion") THEN ChemRecord(Dec(36, 1), Dec(42, 1), Dec(28, 1))
    ELSE IF chemistry = Str("LiHV") THEN ChemRecord(Dec(385, 2), Dec(435, 2), Dec(33, 1))
    ELSE IF chemistry.t = "str" /\ chemistry.s \in ObjectPrototypeKeys
         THEN ChemRecord(Undefined, Undefined, Undefined)
    ELSE ChemRecord(Dec(37, 1), Dec(42, 1), Dec(33, 1))

\* ----------------------------------------------- physics.js: functions

\* The density with the altitude used as given.
calcAirDensityUnclamped(altitudeM, tempC) ==
    LET exponent == Div(Mul(GRAVITY, MOLAR_MASS_AIR), Mul(UNIVERSAL_GAS_CONSTANT, LAPSE_RATE))
        P == Mul(SEA_LEVEL_PRESSURE,
                 MathPow(Sub(Num(1), Div(Mul(LAPSE_RATE, altitudeM), SEA_LEVEL_TEMP)), exponent))
    IN Div(P, Mul(AIR_GAS_CONSTANT, Add(tempC, Dec(27315, 2))))

\* The density with the temperature taken in degrees Celsius, not in kelvin.
calcAirDensityCelsius(altitudeM, tempC) ==
    LET alt == MathMax(Zero, MathMin(altitudeM, Num(11000)))
        exponent == Div(Mul(GRAVITY, MOLAR_MASS_AIR), Mul(UNIVERSAL_GAS_CONSTANT, LAPSE_RATE))
        P == Mul(SEA_LEVEL_PRESSURE,
                 MathPow(Sub(Num(1), Div(Mul(LAPSE_RATE, alt), SEA_LEVEL_TEMP)), exponent))
    IN Div(P, Mul(AIR_GAS_CONSTANT, tempC))

calcAirDensity(altitudeM, tempC) ==
    LET alt == MathMax(Zero, MathMin(altitudeM, Num(11000)))
        exponent == Div(Mul(GRAVITY, MOLAR_MASS_AIR), Mul(UNIVERSAL_GAS_CONSTANT, LAPSE_RATE))
        P == Mul(SEA_LEVEL_PRESSURE,
                 MathPow(Sub(Num(1), Div(Mul(LAPSE_RATE, alt), SEA_LEVEL_TEMP)), exponent))
        T_kelvin == Add(tempC, Dec(27315, 2))
    IN Div(P, Mul(AIR_GAS_CONSTANT, T_kelvin))

\* The RPM without the drop of current x resistance.
calcMotorRPMNoDrop(kv, voltage, current, resistance) == Mul(kv, MathMax(Zero, voltage))

\* The RPM without the floor of the back-EMF at 0.
calcMotorRPMUnclamped(kv, voltage, current, resistance) ==
    Mul(kv, Sub(voltage, Mul(current, resistance)))

calcMotorRPM(kv, voltage, current, resistance) ==
    LET backEMF == Sub(voltage, Mul(current, resistance))
    IN Mul(kv, MathMax(Zero, backEMF))

calcThrust(ct, rho, rps, diameterM) ==
    Mul(Mul(Mul(Mul(ct, rho), rps), rps), PowInt(diameterM, 4))

calcPropPower(cp, rho, rps, diameterM) ==
    Mul(Mul(Mul(cp, rho), PowInt(rps, 3)), PowInt(diameterM, 5))

calcMotorElecPower(voltage, current) == Mul(voltage, current)

\* The efficiency without the cap at 1.
calcMotorEfficiencyUncapped(mechPower, elecPower) ==
    IF Le(elecPower, Zero) THEN Zero
    ELSE MathMax(Zero, Div(mechPower, elecPower))

calcMotorEfficiency(mechPower, elecPower) ==
    IF Le(elecPower, Zero) THEN Zero
    ELSE MathMin(Num(1), MathMax(Zero, Div(mechPower, elecPower)))

\* The estimate without the blade correction.
estimatePropCoefficientsTwoBlade(diameterIn, pitchIn, blades) ==
    LET pitchRatio == Div(pitchIn, diameterIn)
        ct0 == Add(Dec(75, 3), Mul(Dec(45, 3), pitchRatio))
        cp0 == Add(Dec(25, 3), Mul(Dec(35, 3), pitchRatio))
    IN [ct |-> MathMax(Dec(4, 2), MathMin(Dec(22, 2), ct0)),
        cp |-> MathMax(Dec(15, 3), MathMin(Dec(12, 2), cp0))]

estimatePropCoefficients(diameterIn, pitchIn, blades) ==
    LET pitchRatio == Div(pitchIn, diameterIn)
        ct0 == Add(Dec(75, 3), Mul(Dec(45, 3), pitchRatio))
        cp0 == Add(Dec(25, 3), Mul(Dec(35, 3), pitchRatio))
        ct1 == IF blades = Num(3) THEN Mul(ct0, Dec(115, 2)) ELSE ct0
        cp1 == IF blades = Num(3) THEN Mul(cp0, Dec(125, 2)) ELSE cp0
    IN [ct |-> MathMax(Dec(4, 2), MathMin(Dec(22, 2), ct1)),
        cp |-> MathMax(Dec(15, 3), MathMin(Dec(12, 2), cp1))]

\* The loaded voltage without the floor at the chemistry's minimum.
calcBatteryVoltageUnfloored(cells, chemistry, currentA, capacityMah, cRating, internalResistanceMohm) ==
    LET chem == ChemistryLookup(chemistry)
        sagVolts == Mul(currentA, Mul(Div(internalResistanceMohm, Num(1000)), cells))
    IN [voltage |-> Sub(Mul(chem.nominal, cells), sagVolts), sagVolts |-> sagVolts]

calcBatteryVoltageUnderLoad(cells, chemistry, currentA, capacityMah, cRating, internalResistanceMohm) ==
    LET chem == ChemistryLookup(chemistry)
        nominalVoltage == Mul(chem.nominal, cells)
        minVoltage == Mul(chem.min, cells)
        totalResistance == Mul(Div(internalResistanceMohm, Num(1000)), cells)
        sagVolts == Mul(currentA, totalResistance)
    IN [voltage |-> MathMax(minVoltage, Sub(nominalVoltage, sagVolts)), sagVolts |-> sagVolts]

\* A throttle proportional to the thrust, not to its square root.
calcHoverThrottleLinear(totalWeightKg, numMotors, maxThrustPerMotorN, coaxialFactor) ==
    LET thrustPerMotor == Div(Mul(totalWeightKg, GRAVITY), Mul(numMotors, coaxialFactor))
    IN IF Le(maxThrustPerMotorN, Zero) THEN Num(100)
       ELSE MathMin(Num(100), MathMax(Zero, Mul(Div(thrustPerMotor, maxThrustPerMotorN), Num(100))))

calcHoverThrottle(totalWeightKg, numMotors, maxThrustPerMotorN, coaxialFactor) ==
    LET requiredThrust == Mul(totalWeightKg, GRAVITY)
        effectiveMotors == Mul(numMotors, coaxialFactor)
        thrustPerMotor == Div(requiredThrust, effectiveMotors)
    IN IF Le(maxThrustPerMotorN, Zero) THEN Num(100)
       ELSE LET throttleRatio == MathSqrt(Div(thrustPerMotor, maxThrustPerMotorN))
            IN MathMin(Num(100), MathMax(Zero, Mul(throttleRatio, Num(100))))

calcFlightTime(capacityMah, dischargePercent, totalCurrentA) ==
    IF Le(totalCurrentA, Zero) THEN Infinity
    ELSE LET usableCapacity == Mul(capacityMah, dischargePercent)
         IN Mul(Div(usableCapacity, Mul(totalCurrentA, Num(1000))), Num(60))

calcMotorTemp(ambientC, copperLossW, thermalResistanceCW, durationS) ==
    LET tau == Num(120)
        steadyState == Mul(copperLossW, thermalResistanceCW)
    IN Add(ambientC, Mul(steadyState, Sub(Num(1), MathExp(Div(Neg(durationS), tau)))))

\* The ratio without the guard on the weight.
calcThrustToWeightRatioUnguarded(totalThrustN, totalWeightKg) ==
    Div(totalThrustN, Mul(totalWeightKg, GRAVITY))

calcThrustToWeightRatio(totalThrustN, totalWeightKg) ==
    IF Le(totalWeightKg, Zero) THEN Zero
    ELSE Div(totalThrustN, Mul(totalWeightKg, GRAVITY))

calcSystemEfficiency(thrustN, powerW) ==
    IF Le(powerW, Zero) THEN Zero
    ELSE Div(Div(Mul(thrustN, Num(1000)), GRAVITY), powerW)

calcWireLoss(awg, lengthCm, currentA) ==
    LET resistancePerM == OrElse(AwgLookup(awg), AwgLookup(Num(14)))
        resistance == Mul(resistancePerM, Div(lengthCm, Num(100)))
    IN [resistance |-> resistance, powerLoss |-> Mul(Mul(currentA, currentA), resistance)]

\* A derating applied to every layout.
calcCoaxialFactorEveryLayout(isCoaxial) == Dec(85, 2)

calcCoaxialFactor(isCoaxial) == IF isCoaxial THEN Dec(85, 2) ELSE Num(1)

\* ------------------------------------- physics.js: runFullSimulation

SectionNames == {"environment", "frame", "battery", "esc", "motor", "propeller"}

FieldsOf(section) ==
    CASE section = "environment" -> {"altitude", "temperature"}
      [] section = "frame" -> {"motorCount", "layout", "frameWeight", "payloadWeight",
                               "payloadCurrent", "wheelbaseMm"}
      [] section = "battery" -> {"chemistry", "cellsS", "cellsP", "capacityMah", "cRating",
                                 "burstC", "weightG", "internalResistanceMohm", "dischargeDepth"}
      [] section = "esc" -> {"continuousA", "burstA", "resistanceMohm", "weightG", "wireAwg",
                             "wireLengthCm", "minCells", "maxCells"}
      [] section = "motor" -> {"kv", "resistance", "noLoadCurrent", "maxCurrent", "maxPower",
                               "weightG", "thermalResistance", "statorDiameter",
                               "statorHeight", "minCells", "maxCells"}
      [] section = "propeller" -> {"diameterIn", "pitchIn", "blades", "weightG", "ct", "cp"}

\* A section of a configuration: kind "obj" (an object with the fields f, a key
\* it lacks reading as undefined), "undef" (the section is missing) or "null".
EmptyFields(section) == [k \in FieldsOf(section) |-> Undefined]

\* const { environment = {}, ... } = config: the default stands in for a missing
\* section only; a null section stays null.
Destructure(cfg, section) ==
    IF cfg[section].kind = "undef" THEN EmptyFields(section) ELSE cfg[section].f

\* Reading a property of null throws a TypeError.
ThrowsTypeError(cfg) == \E section \in SectionNames : cfg[section].kind = "null"

\* A geometry table whose fallback is the quadcopter's factor.
wbFactorOfQuadFallback(numMotors) ==
    IF numMotors = Num(3) THEN Dec(866, 3)
    ELSE IF numMotors = Num(6) THEN Dec(5, 1)
    ELSE IF numMotors = Num(8) THEN Dec(38, 2)
    ELSE Dec(707, 3)

\* The geometry factor wbFactors[numMotors] || 0.5.
wbFactorOf(numMotors) ==
    IF numMotors = Num(3) THEN Dec(866, 3)
    ELSE IF numMotors = Num(4) THEN Dec(707, 3)
    ELSE IF numMotors = Num(6) THEN Dec(5, 1)
    ELSE IF numMotors = Num(8) THEN Dec(38, 2)
    ELSE Dec(5, 1)

\* A resolution that estimates both coefficients unless both are given.
ResolveCoefficientsTogether(ct, cp, propDiameterIn, propPitchIn, propBlades) ==
    IF ~Truthy(ct) \/ ~Truthy(cp)
    THEN estimatePropCoefficients(propDiameterIn, propPitchIn, propBlades)
    ELSE [ct |-> ct, cp |-> cp]

\* The propeller coefficients: ct and cp as given, each one that is falsy
\* replaced by the geometry estimate.
ResolveCoefficients(ct, cp, propDiameterIn, propPitchIn, propBlades) ==
    IF ~Truthy(ct) \/ ~Truthy(cp)
    THEN LET coeffs == estimatePropCoefficients(propDiameterIn, propPitchIn, propBlades)
         IN [ct |-> OrElse(ct, coeffs.ct), cp |-> OrElse(cp, coeffs.cp)]
    ELSE [ct |-> ct, cp |-> cp]

\* The locals runFullSimulation reads from the configuration, defaults applied.
Resolve(cfg) ==
    LET environment == Destructure(cfg, "environment")
        frame == Destructure(cfg, "frame")
        battery == Destructure(cfg, "battery")
        esc == Destructure(cfg, "esc")
        motor == Destructure(cfg, "motor")
        propeller == Destructure(cfg, "propeller")
        parallel == OrElse(battery.cellsP, Num(1))
        propDiameterIn == OrElse(propeller.diameterIn, Num(10))
        propPitchIn == OrElse(propeller.pitchIn, Dec(45, 1))
        propBlades == OrElse(propeller.blades, Num(2))
        coeffs == ResolveCoefficients(propeller.ct, propeller.cp, propDiameterIn, propPitchIn, propBlades)
    IN [altitude |-> OrElse(environment.altitude, Zero),
        tempC |-> Nullish(environment.temperature, Num(25)),
        numMotors |-> OrElse(frame.motorCount, Num(4)),
        isCoaxial |-> (frame.layout = Str("coaxial")),
        frameWeight |-> Div(OrElse(frame.frameWeight, Zero), Num(1000)),
        payloadWeight |-> Div(OrElse(frame.payloadWeight, Zero), Num(1000)),
        payloadCurrent |-> OrElse(frame.payloadCurrent, Zero),
        wheelbaseMm |-> OrElse(frame.wheelbaseMm, Num(350)),
        chem |-> OrElse(battery.chemistry, Str("LiPo")),
        cells |-> OrElse(battery.cellsS, Num(4)),
        parallel |-> parallel,
        capacityMah |-> Mul(OrElse(battery.capacityMah, Num(5000)), parallel),
        cRating |-> OrElse(battery.cRating, Num(20)),
        burstC |-> OrElse(battery.burstC, Num(40)),
        internalR |-> OrElse(battery.internalResistanceMohm, Num(5)),
        batteryWeight |-> Div(OrElse(battery.weightG, Zero), Num(1000)),
        dischargeDepth |-> Div(OrElse(battery.dischargeDepth, Num(80)), Num(100)),
        kv |-> OrElse(motor.kv, Num(920)),
        motorResistance |-> OrElse(motor.resistance, Dec(1, 1)),
        noLoadCurrent |-> OrElse(motor.noLoadCurrent, Dec(5, 1)),
        maxMotorCurrent |-> OrElse(motor.maxCurrent, Num(30)),
        maxMotorPower |-> OrElse(motor.maxPower, Num(400)),
        motorWeightG |-> OrElse(motor.weightG, Num(60)),
        thermalResistance |-> OrElse(motor.thermalResistance, Num(10)),
        motorMinCells |-> OrElse(motor.minCells, Num(2)),
        motorMaxCells |-> OrElse(motor.maxCells, Num(6)),
        escMaxCurrent |-> OrElse(esc.continuousA, Num(30)),
        escResistance |-> Div(OrElse(esc.resistanceMohm, Num(1)), Num(1000)),
        escWeightG |-> OrElse(esc.weightG, Num(10)),
        wireAWG |-> OrElse(esc.wireAwg, Num(14)),
        wireLengthCm |-> OrElse(esc.wireLengthCm, Num(20)),
        escMinCells |-> OrElse(esc.minCells, Num(2)),
        escMaxCells |-> OrElse(esc.maxCells, Num(6)),
        propDiameterIn |-> propDiameterIn,
        propPitchIn |-> propPitchIn,
        propBlades |-> propBlades,
        propWeightG |-> OrElse(propeller.weightG, Num(15)),
        ct |-> coeffs.ct,
        cp |-> coeffs.cp]

\* runFullSimulation's body runs in the order of the source; each part below takes
\* the locals computed so far (a record s) and returns them with its own added.

\* Lines 284-307: air density, coaxial factor, the pack's voltages and current.
Environment(s) ==
    LET chemData == ChemistryLookup(s.chem)
    IN s @@ [rho |-> calcAirDensity(s.altitude, s.tempC),
             coaxFactor |-> calcCoaxialFactor(s.isCoaxial),
             nominalVoltage |-> Mul(chemData.nominal, s.cells),
             maxVoltage |-> Mul(chemData.max, s.cells),
             maxContinuousCurrent |-> Mul(Div(s.capacityMah, Num(1000)), s.cRating),
             propDiameterM |-> Mul(s.propDiameterIn, Dec(254, 4))]

\* A total weight that the payload lightens.
TotalWeightLessPayload(s) ==
    LET totalWeightKg ==
            Add(Add(Sub(s.frameWeight, s.payloadWeight), s.batteryWeight),
                Div(Add(Add(Mul(s.motorWeightG, s.numMotors), Mul(s.escWeightG, s.numMotors)),
                        Mul(s.propWeightG, s.numMotors)), Num(1000)))
    IN s @@ [totalWeightKg |-> totalWeightKg, totalWeightG |-> Mul(totalWeightKg, Num(1000))]

\* Lines 345-348.
TotalWeight(s) ==
    LET totalWeightKg ==
            Add(Add(Add(s.frameWeight, s.payloadWeight), s.batteryWeight),
                Div(Add(Add(Mul(s.motorWeightG, s.numMotors), Mul(s.escWeightG, s.numMotors)),
                        Mul(s.propWeightG, s.numMotors)), Num(1000)))
    IN s @@ [totalWeightKg |-> totalWeightKg, totalWeightG |-> Mul(totalWeightKg, Num(1000))]

\* Lines 350-355.
MaxThrottle(s) ==
    LET maxRPM == calcMotorRPM(s.kv, s.maxVoltage, s.noLoadCurrent, s.motorResistance)
        maxRPS == Div(maxRPM, Num(60))
        maxThrustPerMotor == calcThrust(s.ct, s.rho, maxRPS, s.propDiameterM)
        maxTotalThrust == Mul(Mul(maxThrustPerMotor, s.numMotors), s.coaxFactor)
    IN s @@ [maxRPM |-> maxRPM, maxRPS |-> maxRPS, maxThrustPerMotor |-> maxThrustPerMotor,
             maxTotalThrust |-> maxTotalThrust,
             maxTotalThrustG |-> Mul(Div(maxTotalThrust, GRAVITY), Num(1000))]

\* Lines 357-366.
HoverPoint(s) ==
    LET hoverThrottle == calcHoverThrottle(s.totalWeightKg, s.numMotors, s.maxThrustPerMotor, s.coaxFactor)
        hoverRPS == Mul(s.maxRPS, Div(hoverThrottle, Num(100)))
    IN s @@ [hoverThrottle |-> hoverThrottle, hoverRPS |-> hoverRPS, hoverRPM |-> Mul(hoverRPS, Num(60)),
             hoverThrustPerMotor |-> calcThrust(s.ct, s.rho, hoverRPS, s.propDiameterM),
             hoverMechPower |-> calcPropPower(s.cp, s.rho, hoverRPS, s.propDiameterM)]

\* Lines 368-378; motorEff is the fixed 0.85.
HoverCurrent(s) ==
    LET motorEff == Dec(85, 2)
        hoverCurrentPerMotor == Add(Div(s.hoverMechPower, Mul(s.nominalVoltage, motorEff)), s.noLoadCurrent)
        hoverTotalCurrent == Add(Mul(hoverCurrentPerMotor, s.numMotors), s.payloadCurrent)
    IN s @@ [motorEff |-> motorEff, hoverCurrentPerMotor |-> hoverCurrentPerMotor,
             hoverTotalCurrent |-> hoverTotalCurrent,
             hoverBattery |-> calcBatteryVoltageUnderLoad(s.cells, s.chem, hoverTotalCurrent,
                                                          s.capacityMah, s.cRating, s.internalR)]

\* Lines 380-388.
HoverPower(s) ==
    LET hoverElecPowerPerMotor ==
            calcMotorElecPower(Mul(Div(s.hoverBattery.voltage, s.cells), s.cells), s.hoverCurrentPerMotor)
        hoverTotalPower == Add(Mul(hoverElecPowerPerMotor, s.numMotors),
                               Mul(s.payloadCurrent, s.hoverBattery.voltage))
    IN s @@ [hoverElecPowerPerMotor |-> hoverElecPowerPerMotor, hoverTotalPower |-> hoverTotalPower,
             hoverEfficiency |->
                 calcSystemEfficiency(Mul(Mul(s.hoverThrustPerMotor, s.numMotors), s.coaxFactor),
                                      hoverTotalPower),
             flightTime |-> calcFlightTime(s.capacityMah, s.dischargeDepth, s.hoverTotalCurrent)]

\* A full-throttle current that leaves the propeller's load out.
MaxCurrentNoLoad(s) ==
    LET maxMechPower == calcPropPower(s.cp, s.rho, s.maxRPS, s.propDiameterM)
        maxCurrentPerMotor == s.noLoadCurrent
        maxTotalCurrentDraw == Add(Mul(maxCurrentPerMotor, s.numMotors), s.payloadCurrent)
    IN s @@ [maxMechPower |-> maxMechPower, maxCurrentPerMotor |-> maxCurrentPerMotor,
             maxTotalCurrentDraw |-> maxTotalCurrentDraw,
             maxBattery |-> calcBatteryVoltageUnderLoad(s.cells, s.chem, maxTotalCurrentDraw,
                                                        s.capacityMah, s.cRating, s.internalR)]

\* Lines 390-398.
MaxCurrent(s) ==
    LET maxMechPower == calcPropPower(s.cp, s.rho, s.maxRPS, s.propDiameterM)
        maxCurrentPerMotor == Add(Div(maxMechPower, Mul(s.nominalVoltage, s.motorEff)), s.noLoadCurrent)
        maxTotalCurrentDraw == Add(Mul(maxCurrentPerMotor, s.numMotors), s.payloadCurrent)
    IN s @@ [maxMechPower |-> maxMechPower, maxCurrentPerMotor |-> maxCurrentPerMotor,
             maxTotalCurrentDraw |-> maxTotalCurrentDraw,
             maxBattery |-> calcBatteryVoltageUnderLoad(s.cells, s.chem, maxTotalCurrentDraw,
                                                        s.capacityMah, s.cRating, s.internalR)]

\* Lines 400-415.
Losses(s) ==
    LET wireLoss == calcWireLoss(s.wireAWG, s.wireLengthCm, s.hoverCurrentPerMotor)
        copperLoss == Mul(Mul(s.hoverCurrentPerMotor, s.hoverCurrentPerMotor), s.motorResistance)
    IN s @@ [wireLoss |-> wireLoss,
             totalWireLoss |-> Mul(wireLoss.powerLoss, s.numMotors),
             escPowerLoss |-> Mul(Mul(Mul(s.hoverCurrentPerMotor, s.hoverCurrentPerMotor), s.escResistance),
                                  s.numMotors),
             copperLoss |-> copperLoss,
             motorTemp5min |-> calcMotorTemp(s.tempC, copperLoss, s.thermalResistance, Num(300)),
             twr |-> calcThrustToWeightRatio(s.maxTotalThrust, s.totalWeightKg),
             motorEffCalc |-> calcMotorEfficiency(s.hoverMechPower, s.hoverElecPowerPerMotor)]

\* Lines 418-425.
Limits(s) ==
    s @@ [maxBurstCurrent |-> Mul(Div(s.capacityMah, Num(1000)), s.burstC),
          wbFactor |-> wbFactorOf(s.numMotors),
          maxPropDiameterMm |-> Mul(s.wheelbaseMm, wbFactorOf(s.numMotors)),
          propDiameterMm |-> Mul(s.propDiameterIn, Dec(254, 1))]

\* The current checks with a current at its limit passing.
CurrentChecksNonStrict(s) ==
    [motorCurrentOk |-> Le(s.hoverCurrentPerMotor, s.maxMotorCurrent),
     escCurrentOk |-> Le(s.hoverCurrentPerMotor, s.escMaxCurrent),
     batteryDischargeOk |-> Le(s.hoverTotalCurrent, s.maxContinuousCurrent),
     batteryBurstOk |-> Le(s.maxTotalCurrentDraw, s.maxBurstCurrent)]

\* Lines 428-431: the four current checks.
CurrentChecks(s) ==
    [motorCurrentOk |-> Lt(s.hoverCurrentPerMotor, s.maxMotorCurrent),
     escCurrentOk |-> Lt(s.hoverCurrentPerMotor, s.escMaxCurrent),
     batteryDischargeOk |-> Lt(s.hoverTotalCurrent, s.maxContinuousCurrent),
     batteryBurstOk |-> Lt(s.maxTotalCurrentDraw, s.maxBurstCurrent)]

\* Line 432.
PropSizeCheck(s) == [propSizeOk |-> Le(s.propDiameterMm, s.maxPropDiameterMm)]

\* The threshold checks with every boundary on the other side.
ThresholdChecksShifted(s) ==
    [twrOk |-> Lt(Num(2), s.twr),
     motorTempOk |-> Le(s.motorTemp5min, Num(80)),
     hoverThrottleOk |-> Le(s.hoverThrottle, Num(60)),
     escVoltageOk |-> Lt(s.escMinCells, s.cells) /\ Lt(s.cells, s.escMaxCells),
     motorVoltageOk |-> Lt(s.motorMinCells, s.cells) /\ Lt(s.cells, s.motorMaxCells)]

\* Lines 433-437: the threshold and the cell-count checks.
ThresholdChecks(s) ==
    [twrOk |-> Ge(s.twr, Num(2)),
     motorTempOk |-> Lt(s.motorTemp5min, Num(80)),
     hoverThrottleOk |-> Lt(s.hoverThrottle, Num(60)),
     escVoltageOk |-> Ge(s.cells, s.escMinCells) /\ Le(s.cells, s.escMaxCells),
     motorVoltageOk |-> Ge(s.cells, s.motorMinCells) /\ Le(s.cells, s.motorMaxCells)]

\* Validations with a check of the hover power against the motor's rating.
ValidationsWithPowerCheck(s) ==
    CurrentChecks(s) @@ PropSizeCheck(s) @@ ThresholdChecks(s)
        @@ [motorPowerOk |-> Lt(s.hoverElecPowerPerMotor, s.maxMotorPower)]

\* Lines 427-438: the validations object.
Validations(s) == CurrentChecks(s) @@ PropSizeCheck(s) @@ ThresholdChecks(s)

CheckNames ==
    {"motorCurrentOk", "escCurrentOk", "batteryDischargeOk", "batteryBurstOk", "propSizeOk",
     "twrOk", "motorTempOk", "hoverThrottleOk", "escVoltageOk", "motorVoltageOk"}

\* An aggregate that leaves the propeller size check out.
AllValidButPropSize(validations) == \A c \in DOMAIN validations \ {"propSizeOk"} : validations[c]

\* Line 440: Object.values(validations).every(Boolean)
AllValid(validations) == \A c \in DOMAIN validations : validations[c]

\* Every local of runFullSimulation at its return statement.
Locals(cfg) ==
    Limits(Losses(MaxCurrent(HoverPower(HoverCurrent(HoverPoint(MaxThrottle(TotalWeight(
        Environment(Resolve(cfg))))))))))

\* Lines 442-507: the numeric fields of the returned record.
ResultFields(s) ==
    [airDensity |-> s.rho,
     totalWeightKg |-> s.totalWeightKg,
     totalWeightG |-> s.totalWeightG,
     hoverThrottle |-> s.hoverThrottle,
     hoverRPM |-> s.hoverRPM,
     hoverCurrentPerMotor |-> s.hoverCurrentPerMotor,
     hoverTotalCurrent |-> s.hoverTotalCurrent,
     hoverTotalPower |-> s.hoverTotalPower,
     hoverEfficiency |-> s.hoverEfficiency,
     hoverThrustPerMotor |-> Mul(Div(s.hoverThrustPerMotor, GRAVITY), Num(1000)),
     hoverBatteryVoltage |-> s.hoverBattery.voltage,
     hoverBatterySag |-> s.hoverBattery.sagVolts,
     flightTimeMin |-> s.flightTime,
     maxThrustPerMotorG |-> Mul(Div(s.maxThrustPerMotor, GRAVITY), Num(1000)),
     maxTotalThrustG |-> s.maxTotalThrustG,
     maxRPM |-> s.maxRPM,
     maxCurrentPerMotor |-> s.maxCurrentPerMotor,
     maxTotalCurrentDraw |-> s.maxTotalCurrentDraw,
     maxBatteryVoltage |-> s.maxBattery.voltage,
     maxBatterySag |-> s.maxBattery.sagVolts,
     twr |-> s.twr,
     wireLossPerMotor |-> s.wireLoss.powerLoss,
     totalWireLoss |-> s.totalWireLoss,
     escPowerLoss |-> s.escPowerLoss,
     copperLossPerMotor |-> s.copperLoss,
     motorTemp5min |-> s.motorTemp5min,
     motorEfficiency |-> s.motorEffCalc,
     nominalVoltage |-> s.nominalVoltage,
     maxVoltage |-> s.maxVoltage,
     maxContinuousCurrent |-> s.maxContinuousCurrent,
     totalCapacityMah |-> s.capacityMah,
     motorMinCells |-> s.motorMinCells,
     motorMaxCells |-> s.motorMaxCells,
     escMinCells |-> s.escMinCells,
     escMaxCells |-> s.escMaxCells,
     batteryCells |-> s.cells,
     ct |-> s.ct,
     cp |-> s.cp,
     maxBurstCurrent |-> s.maxBurstCurrent,
     maxPropDiameterMm |-> s.maxPropDiameterMm,
     propDiameterMm |-> s.propDiameterMm]

\* The returned record: its numeric fields r, validations and allValid; locals
\* keeps the function's locals beside it.
Returned(s, validations) ==
    [threw |-> FALSE, r |-> ResultFields(s), validations |-> validations,
     allValid |-> AllValid(validations), locals |-> s]

\* The outcome of runFullSimulation(cfg): a TypeError thrown, or the result.
runFullSimulation(cfg) ==
    IF ThrowsTypeError(cfg)
    THEN [threw |-> TRUE, r |-> << >>, validations |-> << >>, allValid |-> FALSE, locals |-> << >>]
    ELSE Returned(Locals(cfg), Validations(Locals(cfg)))

\* ------------------------------------------ hooks/useDroneConfig.js

\* A section object holding the given fields (a record), its other keys missing.
Obj(section, fields) ==
    [kind |-> "obj",
     f |-> [k \in FieldsOf(section) |-> IF k \in DOMAIN fields THEN fields[k] ELSE Undefined]]

MissingSection(section) == [kind |-> "undef", f |-> EmptyFields(section)]

NullSection(section) == [kind |-> "null", f |-> EmptyFields(section)]

DEFAULT_CONFIG ==
    [environment |-> Obj("environment", [altitude |-> Num(46), temperature |-> Num(30)]),
     frame |-> Obj("frame", [motorCount |-> Num(4), layout |-> Str("flat"), frameWeight |-> Num(300),
                             payloadWeight |-> Zero, payloadCurrent |-> Zero, wheelbaseMm |-> Num(350)]),
     battery |-> Obj("battery", [chemistry |-> Str("LiPo"), cellsS |-> Num(4), cellsP |-> Num(1),
                                 capacityMah |-> Num(5000), cRating |-> Num(20), burstC |-> Num(40),
                                 weightG |-> Num(480), internalResistanceMohm |-> Num(5),
                                 dischargeDepth |-> Num(80)]),
     esc |-> Obj("esc", [continuousA |-> Num(30), burstA |-> Num(40), resistanceMohm |-> Dec(15, 1),
                         weightG |-> Num(8), wireAwg |-> Num(14), wireLengthCm |-> Num(20)]),
     motor |-> Obj("motor", [kv |-> Num(920), resistance |-> Dec(12, 2), noLoadCurrent |-> Dec(4, 1),
                             maxCurrent |-> Num(20), maxPower |-> Num(280), weightG |-> Num(56),
                             thermalResistance |-> Num(10), statorDiameter |-> Num(22),
                             statorHeight |-> Num(12)]),
     propeller |-> Obj("propeller", [diameterIn |-> Num(10), pitchIn |-> Dec(45, 1), blades |-> Num(2),
                                     weightG |-> Num(15), ct |-> Null, cp |-> Null])]

\* The configuration {}.
EmptyConfig == [section \in SectionNames |-> MissingSection(section)]

\* The values a panel, a preset or a loaded file gives a field.
AltValue(section, field) ==
    CASE field = "altitude" -> Num(1600)
      [] field = "frameWeight" -> Num(5000)
      [] field = "payloadWeight" -> Num(250)
      [] field = "payloadCurrent" -> Num(2)
      [] field = "wheelbaseMm" -> Num(508)
      [] field = "cellsS" -> Num(6)
      [] field = "cellsP" -> Num(2)
      [] field = "capacityMah" -> Num(2200)
      [] field = "cRating" -> Num(1)
      [] field = "burstC" -> Num(60)
      [] field = "internalResistanceMohm" -> Num(50)
      [] field = "dischargeDepth" -> Num(100)
      [] field = "continuousA" -> Num(2)
      [] field = "burstA" -> Num(1)
      [] field = "resistanceMohm" -> Num(3)
      [] field = "wireLengthCm" -> Num(40)
      [] field = "minCells" -> Num(5)
      [] field = "maxCells" -> Num(3)
      [] field = "kv" -> Num(2300)
      [] field = "resistance" -> Num(1)
      [] field = "noLoadCurrent" -> Num(25)
      [] field = "maxCurrent" -> Num(2)
      [] field = "maxPower" -> Num(1)
      [] field = "thermalResistance" -> Num(150)
      [] field = "statorDiameter" -> Num(28)
      [] field = "statorHeight" -> Num(6)
      [] field = "diameterIn" -> Num(5)
      [] field = "pitchIn" -> Num(50)
      [] OTHER -> Num(100)

\* What an update may set a field to: a panel's choices, a cleared numeric input
\* (the empty string), a field dropped or zeroed, a negative entry, another value.
EditValues(section, field) ==
    CASE field = "layout" -> {Str("flat"), Str("coaxial"), Undefined}
      [] field = "chemistry" -> {Str("LiPo"), Str("Li-ion"), Str("LiHV"), Str("NiMH"),
                                 Str("constructor"), Undefined}
      [] field = "motorCount" -> {Num(3), Num(4), Num(5), Num(6), Num(8), Zero, Undefined}
      [] field = "blades" -> {Num(2), Num(3), Undefined}
      [] field = "wireAwg" -> {Num(10), Num(15), Num(26), Undefined}
      [] field \in {"ct", "cp"} -> {Null, Undefined, Zero, Dec(12, 2)}
      [] field = "temperature" -> {Undefined, Null, Zero, Num(25), Num(80), Dec(-27315, 2)}
      [] OTHER -> {Undefined, Str(""), Zero, Num(-5000), AltValue(section, field)}

\* {} with every field that has a documented default given that default.
DocumentedDefaults ==
    [environment |-> Obj("environment", [altitude |-> Zero, temperature |-> Num(25)]),
     frame |-> Obj("frame", [motorCount |-> Num(4), layout |-> Str("flat")]),
     battery |-> Obj("battery", [chemistry |-> Str("LiPo"), cellsS |-> Num(4), cellsP |-> Num(1),
                                 capacityMah |-> Num(5000), cRating |-> Num(20), burstC |-> Num(40),
                                 internalResistanceMohm |-> Num(5), dischargeDepth |-> Num(80)]),
     esc |-> Obj("esc", [continuousA |-> Num(30)]),
     motor |-> Obj("motor", [kv |-> Num(920), resistance |-> Dec(1, 1)]),
     propeller |-> Obj("propeller", [diameterIn |-> Num(10), pitchIn |-> Dec(45, 1), blades |-> Num(2)])]

\* cfg with one field set.
WithField(cfg, section, field, value) ==
    [cfg EXCEPT ![section] = [kind |-> "obj", f |-> [@.f EXCEPT ![field] = value]]]

\* A build that passes every check: the factory default on a 450 mm frame with a
\* 60C burst rating.
ValidConfig ==
    WithField(WithField(DEFAULT_CONFIG, "frame", "wheelbaseMm", Num(450)), "battery", "burstC", Num(60))

\* A build whose motors cannot turn (25 A no-load current through 1 ohm drops
\* more than the pack's 16.8 V): hover and maximum current are the no-load
\* current, 25 A a motor and 100 A in total, and every current limit is set to
\* exactly that.
StalledConfig ==
    [DEFAULT_CONFIG EXCEPT
        !["motor"] = Obj("motor", [kv |-> Num(920), resistance |-> Num(1), noLoadCurrent |-> Num(25),
                                   maxCurrent |-> Num(25), weightG |-> Num(56),
                                   thermalResistance |-> Dec(1, 1)]),
        !["esc"] = Obj("esc", [continuousA |-> Num(25), resistanceMohm |-> Dec(15, 1), weightG |-> Num(8)]),
        !["battery"] = Obj("battery", [chemistry |-> Str("LiPo"), cellsS |-> Num(4), cellsP |-> Num(1),
                                       capacityMah |-> Num(5000), cRating |-> Num(20), burstC |-> Num(20),
                                       weightG |-> Num(480)])]

\* A hexacopter loaded to the limits: a 10 inch propeller on a 508 mm frame
\* (254 mm against 508 x 0.5), 4S on an ESC rated from 4S and a motor rated up
\* to 4S, a frame weight that brings the thrust-to-weight ratio to 2.0 and a
\* thermal resistance that brings the motor to 80 degrees after five minutes.
LimitConfig ==
    [ValidConfig EXCEPT
        !["frame"] = Obj("frame", [motorCount |-> Num(6), layout |-> Str("flat"), frameWeight |-> Num(8310),
                                   payloadWeight |-> Zero, payloadCurrent |-> Zero, wheelbaseMm |-> Num(508)]),
        !["esc"] = Obj("esc", [continuousA |-> Num(30), burstA |-> Num(40), resistanceMohm |-> Dec(15, 1),
                               weightG |-> Num(8), wireAwg |-> Num(14), wireLengthCm |-> Num(20),
                               minCells |-> Num(4), maxCells |-> Num(6)]),
        !["motor"] = Obj("motor", [kv |-> Num(920), resistance |-> Dec(12, 2), noLoadCurrent |-> Dec(4, 1),
                                   maxCurrent |-> Num(20), maxPower |-> Num(280), weightG |-> Num(56),
                                   thermalResistance |-> Dec(7815, 4), statorDiameter |-> Num(22),
                                   statorHeight |-> Num(12), minCells |-> Num(2), maxCells |-> Num(4)])]

\* The passing build at 29 degrees with a frame weight that puts the hover
\* throttle at 60 percent.
ThrottleLimitConfig ==
    WithField(WithField(ValidConfig, "frame", "frameWeight", Num(3665)), "environment", "temperature", Num(29))

\* The passing build with two cells in parallel, a 2 A payload and measured
\* propeller coefficients.
MeasuredPropConfig ==
    [ValidConfig EXCEPT
        !["frame"].f["payloadCurrent"] = Num(2),
        !["battery"].f["cellsP"] = Num(2),
        !["propeller"].f["ct"] = Dec(11, 2),
        !["propeller"].f["cp"] = Dec(5, 2)]

\* A saved file whose propeller section is null.
NullSectionConfig == [DEFAULT_CONFIG EXCEPT !["propeller"] = NullSection("propeller")]

\* What localStorage or a configuration file may hold when it is parsed.
SavedConfigs ==
    {DEFAULT_CONFIG, EmptyConfig, DocumentedDefaults, ValidConfig, StalledConfig, LimitConfig,
     ThrottleLimitConfig, MeasuredPropConfig, NullSectionConfig}

MaxEdits == 1

\* config and results are the hook's state; calls is the log of the calls of
\* runFullSimulation made so far (the configuration given, the configuration as
\* the call left it, the outcome) and edits counts the updates. args and
\* returned hold the arguments and the return value of one call of a function
\* of physics.js made on its own.
VARIABLES config, results, calls, edits, args, returned, stored, served

vars == <<config, results, calls, edits, args, returned, stored, served>>

\* stored is the localStorage entry of one collection of the component store
\* (json says whether the key is set, items is the array it holds) and served
\* the log of the calls the store has served. The store before its first call:
StorageIdle == stored = [json |-> FALSE, items |-> << >>] /\ served = << >>

\* useMemo(() => { try { return runFullSimulation(config) } catch { return null } }):
\* the outcome of the call; results is null exactly when it threw.
Simulate(cfg) == runFullSimulation(cfg)

\* A simulation that writes the motor count it used back into the frame section.
ConfigWithMotorCountWritten(cfg) ==
    IF cfg["frame"].kind # "null" /\ cfg["frame"].f["motorCount"] = Undefined
    THEN WithField(cfg, "frame", "motorCount", Num(4))
    ELSE cfg

\* The configuration as runFullSimulation leaves it: it writes to no object it is given.
ConfigAfterSimulation(cfg) == cfg

Init ==
    /\ edits = 0
    /\ \E saved \in SavedConfigs :
        /\ results = Simulate(saved)
        /\ config = ConfigAfterSimulation(saved)
        /\ calls = <<[given |-> saved, left |-> config, results |-> results]>>
    /\ args = << >>
    /\ returned = Undefined
    /\ StorageIdle

\* The state after setConfig(next): the memo's dependency changed, so the
\* simulation runs again on the new configuration.
SetConfig(next) ==
    /\ edits < MaxEdits
    /\ results' = Simulate(next)
    /\ config' = ConfigAfterSimulation(next)
    /\ calls' = Append(calls, [given |-> next, left |-> config', results |-> results'])
    /\ edits' = edits + 1
    /\ UNCHANGED <<args, returned, stored, served>>

\* updateSection(section, { [field]: value })
UpdateSection ==
    \E section \in DOMAIN config :
        \E field \in DOMAIN config[section].f :
            \E value \in EditValues(section, field) :
                SetConfig(WithField(config, section, field, value))

\* setFullConfig(newConfig): { ...deepClone(DEFAULT_CONFIG), ...newConfig }, a
\* shallow merge: each section the file has (null included) replaces the default's.
MergeOverDefault(newConfig) ==
    [section \in SectionNames |->
        IF newConfig[section].kind = "undef" THEN DEFAULT_CONFIG[section] ELSE newConfig[section]]

SetFullConfig == \E newConfig \in SavedConfigs : SetConfig(MergeOverDefault(newConfig))

Next == UpdateSection \/ SetFullConfig

Spec == Init /\ [][Next]_vars

\* ------------------------------------- calcHoverThrottle on its own

WeightsKg == {Num(-1), Zero, Dec(5, 1), Dec(15, 1), Num(3), Num(50)}

MotorCounts == {Zero, Num(3), Num(4), Num(6), Num(8)}

MaxThrustsN == {Num(-5), Zero, Dec(3, 1), Num(10), Num(20)}

CoaxialFactors == {Num(1), Dec(85, 2)}

\* The hook not mounted.
HookIdle == config = EmptyConfig /\ results = Null /\ calls = << >> /\ edits = 0

InitHoverThrottle ==
    /\ HookIdle
    /\ StorageIdle
    /\ args \in {"calcHoverThrottle"} \X WeightsKg \X MotorCounts \X MaxThrustsN \X CoaxialFactors
    /\ returned = Undefined

CallHoverThrottle ==
    /\ args[1] = "calcHoverThrottle"
    /\ returned = Undefined
    /\ returned' = calcHoverThrottle(args[2], args[3], args[4], args[5])
    /\ UNCHANGED <<config, results, calls, edits, args, stored, served>>

SpecHoverThrottle == InitHoverThrottle /\ [][CallHoverThrottle]_vars

\* --------------------------- the other functions of physics.js on their own

\* args is the function's name followed by its arguments.
Called(name) == args[1] = name /\ returned # Undefined

Diameters == {Zero, Num(5), Num(10), Num(15)}

Pitches == {Num(-20), Zero, Num(3), Dec(45, 1), Num(10), Num(30), Num(50)}

BladeCounts == {Num(2), Num(3), Num(4)}

EstimatePropArgs == {"estimatePropCoefficients"} \X Diameters \X Pitches \X BladeCounts

CallEstimatePropCoefficients ==
    /\ args[1] = "estimatePropCoefficients"
    /\ returned = Undefined
    /\ returned' = estimatePropCoefficients(args[2], args[3], args[4])
    /\ UNCHANGED <<config, results, calls, edits, args, stored, served>>

CellCounts == {Num(1), Num(4), Num(6)}
Chemistries == {Str("LiPo"), Str("Li-ion"), Str("LiHV"), Str("NiMH"), Str("constructor")}
LoadCurrents == {Zero, Num(10), Num(50), Num(500)}
CellResistancesMohm == {Num(5), Num(20)}
BatteryVoltageArgs ==
    {"calcBatteryVoltageUnderLoad"} \X CellCounts \X Chemistries \X LoadCurrents
        \X {Num(5000)} \X {Num(20)} \X CellResistancesMohm

CallBatteryVoltageUnderLoad ==
    /\ args[1] = "calcBatteryVoltageUnderLoad"
    /\ returned = Undefined
    /\ returned' = calcBatteryVoltageUnderLoad(args[2], args[3], args[4], args[5], args[6], args[7])
    /\ UNCHANGED <<config, results, calls, edits, args, stored, served>>

MotorRPMArgs ==
    LET KvValues == {Zero, Num(920), Num(2300)}
        Voltages == {Num(-12), Zero, Dec(148, 1), Dec(252, 1)}
        MotorCurrents == {Zero, Num(10), Num(200)}
        MotorResistances == {Zero, Dec(12, 2), Dec(5, 1)}
    IN {"calcMotorRPM"} \X KvValues \X Voltages \X MotorCurrents \X MotorResistances

CallMotorRPM ==
    /\ args[1] = "calcMotorRPM"
    /\ returned = Undefined
    /\ returned' = calcMotorRPM(args[2], args[3], args[4], args[5])
    /\ UNCHANGED <<config, results, calls, edits, args, stored, served>>

WireLossArgs ==
    LET WireGauges == {Zero, Num(10), Num(14), Num(15), Num(26), Undefined}
        WireLengthsCm == {Zero, Num(20), Num(100)}
        WireCurrents == {Zero, Num(10), Num(25)}
    IN {"calcWireLoss"} \X WireGauges \X WireLengthsCm \X WireCurrents

CallWireLoss ==
    /\ args[1] = "calcWireLoss"
    /\ returned = Undefined
    /\ returned' = calcWireLoss(args[2], args[3], args[4])
    /\ UNCHANGED <<config, results, calls, edits, args, stored, served>>

FlightTimeArgs ==
    LET CapacitiesMah == {Num(1500), Num(5000)}
        DischargeFractions == {Zero, Dec(8, 1), Num(1)}
        TotalCurrents == {Num(-5), Zero, Num(10), Num(25)}
    IN {"calcFlightTime"} \X CapacitiesMah \X DischargeFractions \X TotalCurrents

CallFlightTime ==
    /\ args[1] = "calcFlightTime"
    /\ returned = Undefined
    /\ returned' = calcFlightTime(args[2], args[3], args[4])
    /\ UNCHANGED <<config, results, calls, edits, args, stored, served>>

ThrustsN == {Num(-10), Zero, Num(20), Num(50)}
TotalWeightsKg == {Num(-1), Zero, Num(1), Dec(25, 1)}
ThrustToWeightArgs == {"calcThrustToWeightRatio"} \X ThrustsN \X TotalWeightsKg

CallThrustToWeightRatio ==
    /\ args[1] = "calcThrustToWeightRatio"
    /\ returned = Undefined
    /\ returned' = calcThrustToWeightRatio(args[2], args[3])
    /\ UNCHANGED <<config, results, calls, edits, args, stored, served>>

PowersW == {Num(-100), Zero, Num(40), Num(100), Num(200)}
SystemEfficiencyArgs == {"calcSystemEfficiency"} \X ThrustsN \X PowersW

CallSystemEfficiency ==
    /\ args[1] = "calcSystemEfficiency"
    /\ returned = Undefined
    /\ returned' = calcSystemEfficiency(args[2], args[3])
    /\ UNCHANGED <<config, results, calls, edits, args, stored, served>>

MechPowersW == {Num(-20), Zero, Num(40), Num(100), Num(150)}
MotorEfficiencyArgs == {"calcMotorEfficiency"} \X MechPowersW \X PowersW

CallMotorEfficiency ==
    /\ args[1] = "calcMotorEfficiency"
    /\ returned = Undefined
    /\ returned' = calcMotorEfficiency(args[2], args[3])
    /\ UNCHANGED <<config, results, calls, edits, args, stored, served>>

AirDensityArgs ==
    LET Altitudes == {Num(-500), Num(-1), Zero, Num(46), Num(1600), Num(4000), Num(11000), Num(11001), Num(20000)}
        Temperatures == {Num(-20), Zero, Num(15), Num(30), Num(50)}
    IN {"calcAirDensity"} \X Altitudes \X Temperatures

CallAirDensity ==
    /\ args[1] = "calcAirDensity"
    /\ returned = Undefined
    /\ returned' = calcAirDensity(args[2], args[3])
    /\ UNCHANGED <<config, results, calls, edits, args, stored, served>>

FunctionArgs == EstimatePropArgs \cup BatteryVoltageArgs \cup MotorRPMArgs
        \cup WireLossArgs \cup FlightTimeArgs \cup ThrustToWeightArgs
        \cup SystemEfficiencyArgs \cup MotorEfficiencyArgs \cup AirDensityArgs

InitFunctions ==
    /\ HookIdle
    /\ StorageIdle
    /\ args \in FunctionArgs
    /\ returned = Undefined

NextFunctions ==
    \/ CallEstimatePropCoefficients
    \/ CallBatteryVoltageUnderLoad
    \/ CallMotorRPM
    \/ CallWireLoss
    \/ CallFlightTime
    \/ CallThrustToWeightRatio
    \/ CallSystemEfficiency
    \/ CallMotorEfficiency
    \/ CallAirDensity

SpecFunctions == InitFunctions /\ [][NextFunctions]_vars

\* --------------------------------------------------- services/storage.js

\* DEFAULTS.escs: the rows a collection is seeded with. A row is modelled by
\* its id and its name; the other columns are carried along like the name.
DEFAULTS ==
    << [id |-> 1, name |-> "20A BLHeli_S"],  [id |-> 2, name |-> "30A BLHeli_S"],
       [id |-> 3, name |-> "35A BLHeli_32"], [id |-> 4, name |-> "45A BLHeli_32"],
       [id |-> 5, name |-> "50A ESC"],       [id |-> 6, name |-> "60A ESC"],
       [id |-> 7, name |-> "80A ESC"],       [id |-> 8, name |-> "4-in-1 45A"] >>

\* The value Number(id) has for an id that is no numeral.
NaNId == -1

\* Number(id) of an id given as a number, as a numeral string ("9") or as any
\* other string.
Number(id) == IF id.t = "junk" THEN NaNId ELSE id.n

\* a === b on ids: NaN is equal to nothing.
StrictEquals(a, b) == a # NaNId /\ b # NaNId /\ a = b

\* loadData: an unset key yields the defaults (and sets the key to them).
loadData(entry) == IF ~entry.json THEN DEFAULTS ELSE entry.items

\* saveData: localStorage.setItem(key, JSON.stringify(items)).
saveData(items) == [json |-> TRUE, items |-> items]

\* The entry loadData leaves when nothing is saved afterwards.
Loaded(entry) == saveData(loadData(entry))

\* items.reduce((max, i) => Math.max(max, i.id || 0), 0); stored ids are
\* positive numbers, so i.id || 0 is i.id.
RECURSIVE maxId(_)
maxId(items) ==
    IF items = << >> THEN 0
    ELSE LET rest == maxId(Tail(items))
         IN IF Head(items).id > rest THEN Head(items).id ELSE rest

\* items.findIndex(i => i.id === Number(id)); 0 stands for -1.
findIndex(items, id) ==
    LET hits == {i \in 1..Len(items) : StrictEquals(items[i].id, Number(id))}
    IN IF hits = {} THEN 0 ELSE CHOOSE i \in hits : \A j \in hits : i <= j

\* addComponent(collection, item): { ...item, id: maxId + 1 } is pushed.
addComponent(entry, item) ==
    LET items   == loadData(entry)
        newItem == [id |-> maxId(items) + 1] @@ item
    IN [entry |-> saveData(Append(items, newItem)), returned |-> newItem.id]

\* updateComponent with { ...items[index], ...updates }: an id among the
\* updates replaces the row's.
updateComponentSpreadLast(entry, id, updates) ==
    LET items == loadData(entry)
        index == findIndex(items, id)
    IN IF index = 0
       THEN [entry |-> Loaded(entry), returned |-> FALSE]
       ELSE [entry |-> saveData([items EXCEPT
                         ![index] = updates @@ items[index]]),
             returned |-> TRUE]

\* updateComponent(collection, id, updates).
updateComponent(entry, id, updates) ==
    LET items == loadData(entry)
        index == findIndex(items, id)
    IN IF index = 0
       THEN [entry |-> Loaded(entry), returned |-> FALSE]
       ELSE [entry |-> saveData([items EXCEPT
                         ![index] = [id |-> Number(id)] @@ updates @@ items[index]]),
             returned |-> TRUE]

\* deleteComponent(collection, id).
deleteComponent(entry, id) ==
    LET items == loadData(entry)
        kept  == SelectSeq(items, LAMBDA i : ~StrictEquals(i.id, Number(id)))
    IN IF Len(kept) # Len(items)
       THEN [entry |-> saveData(kept), returned |-> TRUE]
       ELSE [entry |-> Loaded(entry), returned |-> FALSE]

\* The calls one run of the store serves.
MaxServed == 3

\* Ids the panels pass: the selected row's id as a number or as the numeral a
\* form field holds, an id no row has, and a string that is no numeral.
IdArgs ==
    {[t |-> "number", n |-> n] : n \in {0, 1, 8, 9, 10}}
        \cup {[t |-> "string", n |-> 9], [t |-> "junk", n |-> 0]}

\* Rows given to addComponent: a new row, and a copy of a row that still
\* carries that row's id.
NewItems == {[name |-> "Custom ESC"], [id |-> 2, name |-> "Copy of 30A"]}

\* Updates given to updateComponent: a renaming, and one that carries an id.
Updates == {[name |-> "Renamed"], [id |-> 3, name |-> "Renamed"]}

Serve(call, out) ==
    /\ Len(served) < MaxServed
    /\ stored' = out.entry
    /\ served' = Append(served, call @@ [before   |-> loadData(stored),
                                         after    |-> loadData(out.entry),
                                         returned |-> out.returned])
    /\ UNCHANGED <<config, results, calls, edits, args, returned>>

AddComponent ==
    \E item \in NewItems :
        Serve([op |-> "addComponent", item |-> item], addComponent(stored, item))

UpdateComponent ==
    \E id \in IdArgs : \E updates \in Updates :
        Serve([op |-> "updateComponent", id |-> id, updates |-> updates],
              updateComponent(stored, id, updates))

DeleteComponent ==
    \E id \in IdArgs :
        Serve([op |-> "deleteComponent", id |-> id], deleteComponent(stored, id))

InitStorage ==
    /\ HookIdle
    /\ args = << >>
    /\ returned = Undefined
    /\ StorageIdle

NextStorage == AddComponent \/ UpdateComponent \/ DeleteComponent

SpecStorage == InitStorage /\ [][NextStorage]_vars

\* ------------------------------------------------------- properties

\* C1: whenever runFullSimulation returns, validations holds exactly the ten
\* named checks and allValid is true if and only if all ten are true, so one
\* false check makes allValid false.
C1_AllValidIsConjunction ==
    ~results.threw =>
        /\ DOMAIN results.validations = CheckNames
        /\ results.allValid <=> \A c \in CheckNames : results.validations[c]

\* The build that passed every check has had one field edited, and exactly one
\* check fails now: allValid went from true to false.
C1_Witness ==
    /\ Len(calls) = 2
    /\ calls[1].results.allValid
    /\ ~results.threw
    /\ Cardinality({c \in CheckNames : ~results.validations[c]}) = 1
    /\ ~results.allValid

\* C2: each of the four current checks is true exactly when the current is
\* strictly below its limit, the limits being the motor's maximum current and
\* the ESC's continuous current as the function reads them and the pack's
\* continuous and burst currents, total capacity / 1000 x cRating and x burstC;
\* a current equal to its limit fails.
C2_CurrentChecksStrict ==
    ~results.threw =>
        LET r == results.r
            v == results.validations
            l == results.locals
        IN /\ v.motorCurrentOk <=> Lt(r.hoverCurrentPerMotor, l.maxMotorCurrent)
           /\ v.escCurrentOk <=> Lt(r.hoverCurrentPerMotor, l.escMaxCurrent)
           /\ r.totalCapacityMah = Mul(OrElse(Destructure(config, "battery").capacityMah, Num(5000)), l.parallel)
           /\ r.maxContinuousCurrent = Mul(Div(r.totalCapacityMah, Num(1000)), l.cRating)
           /\ r.maxBurstCurrent = Mul(Div(r.totalCapacityMah, Num(1000)), l.burstC)
           /\ v.batteryDischargeOk <=> Lt(r.hoverTotalCurrent, r.maxContinuousCurrent)
           /\ v.batteryBurstOk <=> Lt(r.maxTotalCurrentDraw, r.maxBurstCurrent)
           /\ r.hoverCurrentPerMotor = l.maxMotorCurrent => ~v.motorCurrentOk
           /\ r.hoverCurrentPerMotor = l.escMaxCurrent => ~v.escCurrentOk
           /\ r.hoverTotalCurrent = r.maxContinuousCurrent => ~v.batteryDischargeOk
           /\ r.maxTotalCurrentDraw = r.maxBurstCurrent => ~v.batteryBurstOk

\* Every current is exactly at its limit, and all four checks fail.
C2_Witness ==
    /\ ~results.threw
    /\ IsNum(results.r.hoverCurrentPerMotor)
    /\ results.r.hoverCurrentPerMotor = results.locals.maxMotorCurrent
    /\ results.r.hoverCurrentPerMotor = results.locals.escMaxCurrent
    /\ results.r.hoverTotalCurrent = results.r.maxContinuousCurrent
    /\ results.r.maxTotalCurrentDraw = results.r.maxBurstCurrent
    /\ ~results.validations.motorCurrentOk
    /\ ~results.validations.escCurrentOk
    /\ ~results.validations.batteryDischargeOk
    /\ ~results.validations.batteryBurstOk

\* C3: twrOk is twr >= 2 (2.0 passes), motorTempOk is motorTemp5min < 80 (80
\* fails), hoverThrottleOk is hoverThrottle < 60 (60 fails), and escVoltageOk
\* and motorVoltageOk hold exactly when the pack's series count lies between
\* the part's minimum and maximum cell counts, both ends included.
C3_ThresholdBoundaries ==
    ~results.threw =>
        LET r == results.r
            v == results.validations
        IN /\ v.twrOk <=> Ge(r.twr, Num(2))
           /\ v.motorTempOk <=> Lt(r.motorTemp5min, Num(80))
           /\ v.hoverThrottleOk <=> Lt(r.hoverThrottle, Num(60))
           /\ v.escVoltageOk <=> (Le(r.escMinCells, r.batteryCells) /\ Le(r.batteryCells, r.escMaxCells))
           /\ v.motorVoltageOk <=> (Le(r.motorMinCells, r.batteryCells) /\ Le(r.batteryCells, r.motorMaxCells))
           /\ r.twr = Num(2) => v.twrOk
           /\ r.motorTemp5min = Num(80) => ~v.motorTempOk
           /\ r.hoverThrottle = Num(60) => ~v.hoverThrottleOk

\* The first simulation ran at twr 2.0 (passing), at 80 degrees (failing) and
\* with the pack at the ESC's minimum and the motor's maximum cell count (both
\* passing); the one on screen hovers at 60 percent throttle (failing).
C3_Witness ==
    /\ Len(calls) = 2
    /\ ~calls[1].results.threw
    /\ calls[1].results.r.twr = Num(2) /\ calls[1].results.validations.twrOk
    /\ calls[1].results.r.motorTemp5min = Num(80) /\ ~calls[1].results.validations.motorTempOk
    /\ calls[1].results.r.batteryCells = calls[1].results.r.escMinCells
    /\ calls[1].results.validations.escVoltageOk
    /\ calls[1].results.r.batteryCells = calls[1].results.r.motorMaxCells
    /\ calls[1].results.validations.motorVoltageOk
    /\ ~results.threw
    /\ results.r.hoverThrottle = Num(60) /\ ~results.validations.hoverThrottleOk

\* C4: propDiameterMm is the propeller diameter in inches x 25.4,
\* maxPropDiameterMm is the wheelbase x f with f = 0.866 for 3 motors, 0.707
\* for 4, 0.5 for 6, 0.38 for 8 and 0.5 for any other count, and propSizeOk is
\* propDiameterMm <= maxPropDiameterMm, equality passing.
C4_PropSize ==
    ~results.threw =>
        LET r == results.r
            l == results.locals
            f == CASE l.numMotors = Num(3) -> Dec(866, 3)
                   [] l.numMotors = Num(4) -> Dec(707, 3)
                   [] l.numMotors = Num(6) -> Dec(5, 1)
                   [] l.numMotors = Num(8) -> Dec(38, 2)
                   [] OTHER -> Dec(5, 1)
        IN /\ r.propDiameterMm = Mul(l.propDiameterIn, Dec(254, 1))
           /\ r.maxPropDiameterMm = Mul(l.wheelbaseMm, f)
           /\ results.validations.propSizeOk <=> Le(r.propDiameterMm, r.maxPropDiameterMm)
           /\ (IsNum(r.propDiameterMm) /\ r.propDiameterMm = r.maxPropDiameterMm)
                  => results.validations.propSizeOk

\* A 254 mm propeller on a 508 mm hexacopter frame, then on the same frame with
\* five motors: the two sides are equal both times and the check passes.
C4_Witness ==
    /\ Len(calls) = 2
    /\ ~calls[1].results.threw /\ ~results.threw
    /\ calls[1].results.locals.numMotors = Num(6)
    /\ calls[1].results.r.propDiameterMm = calls[1].results.r.maxPropDiameterMm
    /\ calls[1].results.validations.propSizeOk
    /\ results.locals.numMotors = Num(5)
    /\ results.r.propDiameterMm = Dec(254, 0)
    /\ results.r.maxPropDiameterMm = Dec(254, 0)
    /\ results.validations.propSizeOk

C6_SuppliedValueUsed ==
    ~results.threw =>
        LET l == results.locals
            battery == Destructure(config, "battery")
            motor == Destructure(config, "motor")
            propeller == Destructure(config, "propeller")
            esc == Destructure(config, "esc")
            InRange(x) == IsNum(x) /\ Ge(x, Zero) /\ Le(x, Num(100))
        IN /\ InRange(battery.dischargeDepth) => l.dischargeDepth = Div(battery.dischargeDepth, Num(100))
           /\ InRange(motor.noLoadCurrent) => l.noLoadCurrent = motor.noLoadCurrent
           /\ InRange(motor.resistance) => l.motorResistance = motor.resistance
           /\ InRange(propeller.weightG) => l.propWeightG = propeller.weightG
           /\ InRange(esc.resistanceMohm) => l.escResistance = Div(esc.resistanceMohm, Num(1000))

\* The configuration cfg with every field it omits that has a documented
\* default given that default.
WithDocumentedDefaults(cfg) ==
    [section \in SectionNames |->
        IF cfg[section].kind = "null" THEN cfg[section]
        ELSE [kind |-> "obj",
              f |-> [k \in FieldsOf(section) |->
                        IF cfg[section].f[k] = Undefined
                        THEN DocumentedDefaults[section].f[k]
                        ELSE cfg[section].f[k]]]]

\* C7: the outcome for a configuration equals the outcome for the same
\* configuration with every omitted field given its documented default; for
\* {} that is the fully explicit default configuration.
C7_OmittedEqualsDefault ==
    LET explicit == runFullSimulation(WithDocumentedDefaults(config))
    IN /\ results.threw = explicit.threw
       /\ results.r = explicit.r
       /\ results.validations = explicit.validations
       /\ results.allValid = explicit.allValid

\* The session started from {} and an update left the motor section without a
\* kv: the simulation returned what the explicit defaults give.
C7_Witness ==
    /\ Len(calls) = 2
    /\ calls[1].given = EmptyConfig
    /\ WithDocumentedDefaults(calls[1].given) = DocumentedDefaults
    /\ config["motor"].kind = "obj"
    /\ config["motor"].f["kv"] = Undefined
    /\ ~results.threw
    /\ IsNum(results.r.flightTimeMin)
    /\ results.r = runFullSimulation(DocumentedDefaults).r

\* C8: runFullSimulation returns a result for every configuration, whichever
\* sections or fields are missing, null or malformed.
C8_NeverThrows == ~results.threw

\* Every section is present or missing and every field is a finite number, is
\* missing, or is one of the listed layouts or chemistries (ct and cp may be null).
SuppliedFinite(cfg) ==
    \A section \in SectionNames :
        /\ cfg[section].kind # "null"
        /\ \A k \in FieldsOf(section) :
               LET x == cfg[section].f[k]
               IN \/ x = Undefined
                  \/ IF k = "layout" THEN x \in {Str("flat"), Str("coaxial")}
                     ELSE IF k = "chemistry" THEN x \in {Str("LiPo"), Str("Li-ion"), Str("LiHV")}
                     ELSE IsNum(x) \/ (k \in {"ct", "cp"} /\ x = Null)

\* C9: for a configuration whose numeric fields are finite, every numeric field
\* of the result is a number or an infinity, never NaN or undefined.
C9_NoNaNField ==
    (SuppliedFinite(config) /\ ~results.threw) =>
        \A k \in DOMAIN results.r : IsNum(results.r[k]) \/ IsInf(results.r[k])

\* C10: calcHoverThrottle returns a number between 0 and 100 for finite
\* arguments, and 100 whenever the maximum thrust per motor is not positive.
C10_HoverThrottleInRange ==
    returned # Undefined =>
        /\ IsNum(returned) /\ Ge(returned, Zero) /\ Le(returned, Num(100))
        /\ Le(args[4], Zero) => returned = Num(100)

\* C11 (as amended): for the same diameter and pitch the 3-blade ct and cp are
\* never less than the 2-blade ones, and each is strictly greater whenever the
\* 2-blade value lies strictly between its clamp bounds (0.04 and 0.22 for ct,
\* 0.015 and 0.12 for cp).
C11_ThreeBladeNotLess ==
    (Called("estimatePropCoefficients") /\ args[4] = Num(3)) =>
        LET two == estimatePropCoefficients(args[2], args[3], Num(2))
        IN /\ ~Lt(returned.ct, two.ct)
           /\ ~Lt(returned.cp, two.cp)
           /\ (Lt(Dec(4, 2), two.ct) /\ Lt(two.ct, Dec(22, 2))) => Lt(two.ct, returned.ct)
           /\ (Lt(Dec(15, 3), two.cp) /\ Lt(two.cp, Dec(12, 2))) => Lt(two.cp, returned.cp)

\* A 10 x 30 three-blade propeller: its ct is above the two-blade ct, and both
\* cp are at the upper clamp.
C11_Witness ==
    /\ Called("estimatePropCoefficients")
    /\ args[4] = Num(3)
    /\ Lt(estimatePropCoefficients(args[2], args[3], Num(2)).ct, returned.ct)
    /\ estimatePropCoefficients(args[2], args[3], Num(2)).cp = Dec(12, 2)
    /\ returned.cp = Dec(12, 2)

\* C11 as stated: for every diameter and pitch the 3-blade ct and cp are both
\* strictly greater than the 2-blade ones.
C11_ThreeBladeStrictlyGreater ==
    (Called("estimatePropCoefficients") /\ args[4] = Num(3)) =>
        LET two == estimatePropCoefficients(args[2], args[3], Num(2))
        IN Lt(two.ct, returned.ct) /\ Lt(two.cp, returned.cp)

\* C12: for every diameter, pitch and blade count ct lies in [0.04, 0.22] and cp
\* in [0.015, 0.12], each the clamp of the base value times the blade
\* multiplier (1.15 and 1.25 for 3 blades, 1 otherwise).
C12_CoefficientsClamped ==
    Called("estimatePropCoefficients") =>
        LET pitchRatio == Div(args[3], args[2])
            mct == IF args[4] = Num(3) THEN Dec(115, 2) ELSE Num(1)
            mcp == IF args[4] = Num(3) THEN Dec(125, 2) ELSE Num(1)
            ct == Mul(Add(Dec(75, 3), Mul(Dec(45, 3), pitchRatio)), mct)
            cp == Mul(Add(Dec(25, 3), Mul(Dec(35, 3), pitchRatio)), mcp)
        IN /\ returned.ct = MathMax(Dec(4, 2), MathMin(Dec(22, 2), ct))
           /\ returned.cp = MathMax(Dec(15, 3), MathMin(Dec(12, 2), cp))
           /\ Ge(returned.ct, Dec(4, 2)) /\ Le(returned.ct, Dec(22, 2))
           /\ Ge(returned.cp, Dec(15, 3)) /\ Le(returned.cp, Dec(12, 2))

\* C13: for a documented chemistry and at least one cell, sagVolts is
\* currentA x (internalResistanceMohm / 1000) x cells, voltage is the larger of
\* min x cells and nominal x cells - sagVolts, so never below min x cells, and
\* at zero current the sag is 0 and the voltage is nominal x cells.
C13_SagAndFloor ==
    (Called("calcBatteryVoltageUnderLoad") /\ args[3] \in {Str("LiPo"), Str("Li-ion"), Str("LiHV")}) =>
        LET cells == args[2]
            currentA == args[4]
            nominal == IF args[3] = Str("LiPo") THEN Dec(37, 1)
                       ELSE IF args[3] = Str("Li-ion") THEN Dec(36, 1) ELSE Dec(385, 2)
            min == IF args[3] = Str("Li-ion") THEN Dec(28, 1) ELSE Dec(33, 1)
            sag == Mul(currentA, Mul(Div(args[7], Num(1000)), cells))
        IN /\ returned.sagVolts = sag
           /\ returned.voltage = MathMax(Mul(min, cells), Sub(Mul(nominal, cells), sag))
           /\ Ge(returned.voltage, Mul(min, cells))
           /\ currentA = Zero => (returned.sagVolts = Zero /\ returned.voltage = Mul(nominal, cells))

\* A 4S LiPo pack whose computed sag would take it below 13.2 V is held at 13.2 V.
C13_Witness ==
    /\ Called("calcBatteryVoltageUnderLoad")
    /\ args[2] = Num(4) /\ args[3] = Str("LiPo")
    /\ Lt(Sub(Dec(148, 1), returned.sagVolts), Dec(132, 1))
    /\ returned.voltage = Dec(132, 1)

\* C14 (as amended): at zero current and any resistance calcMotorRPM returns
\* kv x voltage when the voltage is not negative, and kv x 0 when it is.
C14_NoLoadRPM ==
    (Called("calcMotorRPM") /\ args[4] = Zero) =>
        /\ Ge(args[3], Zero) => returned = Mul(args[2], args[3])
        /\ Lt(args[3], Zero) => returned = Mul(args[2], Zero)

\* An unloaded motor with winding resistance on a positive voltage.
C14_Witness ==
    /\ Called("calcMotorRPM")
    /\ args[4] = Zero
    /\ Lt(Zero, args[2]) /\ Lt(Zero, args[3]) /\ Lt(Zero, args[5])
    /\ returned = Mul(args[2], args[3])

\* C14 as stated: at zero current calcMotorRPM returns kv x voltage for every
\* kv, voltage and resistance.
C14_NoLoadRPMEveryVoltage ==
    (Called("calcMotorRPM") /\ args[4] = Zero) => returned = Mul(args[2], args[3])

\* C15: with the battery's capacityMah (above 0), cellsP (at least 1) and
\* dischargeDepth (0 to 100) supplied, flightTimeMin is
\* ((capacityMah x cellsP) x (dischargeDepth / 100)) / (hoverTotalCurrent x 1000) x 60
\* when hoverTotalCurrent is above 0 and Infinity when it is not, and
\* hoverTotalCurrent is hoverCurrentPerMotor x motorCount + payloadCurrent.
C15_FlightTime ==
    ~results.threw =>
        LET r == results.r
            battery == Destructure(config, "battery")
            frame == Destructure(config, "frame")
            hover == r.hoverTotalCurrent
            usable == Mul(Mul(battery.capacityMah, battery.cellsP), Div(battery.dischargeDepth, Num(100)))
        IN /\ ( /\ IsNum(battery.capacityMah) /\ Lt(Zero, battery.capacityMah)
                /\ IsNum(battery.cellsP) /\ Ge(battery.cellsP, Num(1))
                /\ IsNum(battery.dischargeDepth)
                /\ Ge(battery.dischargeDepth, Zero) /\ Le(battery.dischargeDepth, Num(100))
                /\ IsNum(hover) )
              => r.flightTimeMin = IF Le(hover, Zero) THEN Infinity
                                   ELSE Mul(Div(usable, Mul(hover, Num(1000))), Num(60))
           /\ ( /\ IsNum(frame.motorCount) /\ Ge(frame.motorCount, Num(1))
                /\ IsNum(frame.payloadCurrent) /\ IsNum(r.hoverCurrentPerMotor) )
              => hover = Add(Mul(r.hoverCurrentPerMotor, frame.motorCount), frame.payloadCurrent)

\* C16: the coaxial factor is 0.85 when frame.layout is 'coaxial' and 1 for any
\* other or missing layout, which then gives the results of the flat layout.
\* Against the same configuration with the flat layout, the coaxial one has
\* the same maxRPM and maxThrustPerMotorG and 0.85 times the total maximum
\* thrust; maxTotalThrustG and twr are 0.85 times the flat ones to the
\* arithmetic's four significant digits.
C16_CoaxialDerating ==
    ~results.threw =>
        LET l == results.locals
            r == results.r
            flat == runFullSimulation(WithField(config, "frame", "layout", Str("flat")))
            Scaled(x, y) == \/ Le(Mul(y, Dec(847, 3)), x) /\ Le(x, Mul(y, Dec(853, 3)))
                            \/ Le(Mul(y, Dec(853, 3)), x) /\ Le(x, Mul(y, Dec(847, 3)))
        IN IF Destructure(config, "frame").layout = Str("coaxial")
           THEN /\ l.coaxFactor = Dec(85, 2)
                /\ r.maxRPM = flat.r.maxRPM
                /\ r.maxThrustPerMotorG = flat.r.maxThrustPerMotorG
                /\ l.maxTotalThrust = Mul(flat.locals.maxTotalThrust, Dec(85, 2))
                /\ IsNum(flat.r.maxTotalThrustG) => Scaled(r.maxTotalThrustG, flat.r.maxTotalThrustG)
                /\ IsNum(flat.r.twr) => Scaled(r.twr, flat.r.twr)
           ELSE /\ l.coaxFactor = Num(1)
                /\ r = flat.r

\* A coaxial build whose thrust-to-weight ratio is below that of its flat twin.
C16_Witness ==
    /\ ~results.threw
    /\ Destructure(config, "frame").layout = Str("coaxial")
    /\ Lt(Zero, results.r.twr)
    /\ Lt(results.r.twr, runFullSimulation(WithField(config, "frame", "layout", Str("flat"))).r.twr)
    /\ Lt(results.r.maxTotalThrustG,
          runFullSimulation(WithField(config, "frame", "layout", Str("flat"))).r.maxTotalThrustG)

\* C17: a coefficient the propeller supplies (a number other than 0) is the
\* one the result reports, and one it leaves out (null or missing) is the one
\* estimatePropCoefficients returns for the resolved diameter, pitch and blade
\* count, each coefficient on its own; with both supplied the results do not
\* depend on the pitch or the blade count.
C17_CoefficientResolution ==
    ~results.threw =>
        LET r == results.r
            l == results.locals
            propeller == Destructure(config, "propeller")
            coeffs == estimatePropCoefficients(l.propDiameterIn, l.propPitchIn, l.propBlades)
            Supplied(x) == IsNum(x) /\ x # Zero
            LeftOut(x) == x \in {Null, Undefined}
        IN /\ Supplied(propeller.ct) => r.ct = propeller.ct
           /\ Supplied(propeller.cp) => r.cp = propeller.cp
           /\ LeftOut(propeller.ct) => r.ct = coeffs.ct
           /\ LeftOut(propeller.cp) => r.cp = coeffs.cp
           /\ (Supplied(propeller.ct) /\ Supplied(propeller.cp)) =>
                  /\ runFullSimulation(WithField(config, "propeller", "blades", Num(3))).r = r
                  /\ runFullSimulation(WithField(config, "propeller", "pitchIn", Num(8))).r = r

\* A ct given without a cp: the result has that ct, which is not the
\* estimate, beside the estimated cp.
C17_Witness ==
    /\ ~results.threw
    /\ IsNum(Destructure(config, "propeller").ct)
    /\ Destructure(config, "propeller").ct # Zero
    /\ Destructure(config, "propeller").cp = Null
    /\ results.r.ct = Destructure(config, "propeller").ct
    /\ results.r.ct # estimatePropCoefficients(results.locals.propDiameterIn, results.locals.propPitchIn,
                                               results.locals.propBlades).ct
    /\ results.r.cp = estimatePropCoefficients(results.locals.propDiameterIn, results.locals.propPitchIn,
                                               results.locals.propBlades).cp

\* C18: for a chemistry string other than 'LiPo', 'Li-ion' and 'LiHV'
\* calcBatteryVoltageUnderLoad uses the LiPo voltages (3.7 V nominal, 3.3 V
\* minimum per cell); for an AWG outside the table calcWireLoss uses
\* 0.008286 ohm per metre, with resistance that times lengthCm / 100 and
\* powerLoss currentA squared times the resistance.
C18_UnknownKeyFallsBack ==
    /\ ( /\ Called("calcBatteryVoltageUnderLoad")
         /\ args[3].t = "str"
         /\ args[3] \notin {Str("LiPo"), Str("Li-ion"), Str("LiHV")} )
       => LET sag == Mul(args[4], Mul(Div(args[7], Num(1000)), args[2]))
          IN /\ returned.sagVolts = sag
             /\ returned.voltage = MathMax(Mul(Dec(33, 1), args[2]), Sub(Mul(Dec(37, 1), args[2]), sag))
    /\ ( /\ Called("calcWireLoss")
         /\ args[2] \notin {Num(10), Num(12), Num(14), Num(16), Num(18), Num(20), Num(22), Num(26)} )
       => /\ returned.resistance = Mul(Dec(8286, 6), Div(args[3], Num(100)))
          /\ returned.powerLoss = Mul(Mul(args[4], args[4]), returned.resistance)

\* C19: calcFlightTime returns Infinity exactly when totalCurrentA is 0 or
\* less; calcThrustToWeightRatio returns 0 when the weight is 0 or less and
\* thrust / (weight x g) otherwise; calcSystemEfficiency returns 0 when the
\* power is 0 or less.
C19_DegenerateInputs ==
    /\ Called("calcFlightTime") => (returned = Infinity <=> Le(args[4], Zero))
    /\ Called("calcThrustToWeightRatio") =>
           returned = IF Le(args[3], Zero) THEN Zero ELSE Div(args[2], Mul(args[3], Dec(980665, 5)))
    /\ (Called("calcSystemEfficiency") /\ Le(args[3], Zero)) => returned = Zero

\* A thrust of 20 N or more over a weight of zero or less gives a ratio of 0.
C19_Witness ==
    /\ Called("calcThrustToWeightRatio")
    /\ Lt(Zero, args[2])
    /\ Le(args[3], Zero)
    /\ returned = Zero

\* C20: calcMotorEfficiency lies in [0, 1]: 0 when the electrical power is 0
\* or less, 1 when the mechanical power is at least a positive electrical
\* power, 0 when the mechanical power is negative, and mech / elec otherwise.
C20_MotorEfficiencyClamped ==
    Called("calcMotorEfficiency") =>
        LET mechPower == args[2]
            elecPower == args[3]
        IN /\ Ge(returned, Zero) /\ Le(returned, Num(1))
           /\ returned = IF Le(elecPower, Zero) THEN Zero
                         ELSE IF Ge(mechPower, elecPower) THEN Num(1)
                         ELSE IF Lt(mechPower, Zero) THEN Zero
                         ELSE Div(mechPower, elecPower)

\* More mechanical than electrical power: the efficiency is held at 1.
C20_Witness ==
    /\ Called("calcMotorEfficiency")
    /\ Lt(Zero, args[3])
    /\ Lt(args[3], args[2])
    /\ returned = Num(1)

\* C21: for every temperature the density at an altitude below 0 is the
\* density at 0, and the density at an altitude above 11000 is the density at
\* 11000.
C21_AltitudeClamped ==
    Called("calcAirDensity") =>
        /\ Lt(args[2], Zero) => returned = calcAirDensity(Zero, args[3])
        /\ Lt(Num(11000), args[2]) => returned = calcAirDensity(Num(11000), args[3])

\* The density 500 m below sea level is a positive number, that of sea level.
C21_Witness ==
    /\ Called("calcAirDensity")
    /\ args[2] = Num(-500)
    /\ Lt(Zero, returned)
    /\ returned = calcAirDensity(Zero, args[3])

\* C22: for an altitude in [0, 11000] and a temperature in [-20, 50] the
\* density is a finite number above 0 and below 1.5, and at altitude 0 and
\* 15 degrees it is within 0.01 of 1.225.
C22_DensityRange ==
    ( /\ Called("calcAirDensity")
      /\ Ge(args[2], Zero) /\ Le(args[2], Num(11000))
      /\ Ge(args[3], Num(-20)) /\ Le(args[3], Num(50)) )
    => /\ IsNum(returned)
       /\ Lt(Zero, returned)
       /\ Lt(returned, Dec(15, 1))
       /\ (args[2] = Zero /\ args[3] = Num(15)) =>
              Ge(returned, Dec(1215, 3)) /\ Le(returned, Dec(1235, 3))

\* Sea level at 15 degrees.
C22_Witness ==
    /\ Called("calcAirDensity")
    /\ args[2] = Zero /\ args[3] = Num(15)
    /\ Ge(returned, Dec(1215, 3)) /\ Le(returned, Dec(1235, 3))

\* C23: with the weights supplied as numbers of 0 or more and a motor count of
\* at least 1, totalWeightKg is frameWeight, payloadWeight and the battery's
\* weightG, each over 1000, plus motorCount times the motor's, the ESC's and
\* the propeller's weightG over 1000, and totalWeightG is 1000 times that.
C23_TotalWeight ==
    ~results.threw =>
        LET r == results.r
            frame == Destructure(config, "frame")
            battery == Destructure(config, "battery")
            motor == Destructure(config, "motor")
            esc == Destructure(config, "esc")
            propeller == Destructure(config, "propeller")
            n == frame.motorCount
            Weight(x) == IsNum(x) /\ Ge(x, Zero)
            perMotor == Add(Add(Mul(motor.weightG, n), Mul(esc.weightG, n)), Mul(propeller.weightG, n))
        IN ( /\ Weight(frame.frameWeight) /\ Weight(frame.payloadWeight) /\ Weight(battery.weightG)
             /\ Weight(motor.weightG) /\ Weight(esc.weightG) /\ Weight(propeller.weightG)
             /\ IsNum(n) /\ Ge(n, Num(1)) )
           => /\ r.totalWeightKg =
                     Add(Add(Add(Div(frame.frameWeight, Num(1000)), Div(frame.payloadWeight, Num(1000))),
                             Div(battery.weightG, Num(1000))),
                         Div(perMotor, Num(1000)))
              /\ r.totalWeightG = Mul(r.totalWeightKg, Num(1000))
              /\ r.totalWeightKg = Div(r.totalWeightG, Num(1000))

\* C24: for kv of 0 or more and a positive current and resistance the RPM is
\* kv x max(0, voltage - current x resistance), never negative, and 0 when
\* current x resistance exceeds the voltage.
C24_NeverNegativeRPM ==
    (Called("calcMotorRPM") /\ Ge(args[2], Zero) /\ Lt(Zero, args[4]) /\ Lt(Zero, args[5])) =>
        /\ returned = Mul(args[2], MathMax(Zero, Sub(args[3], Mul(args[4], args[5]))))
        /\ Ge(returned, Zero)
        /\ Lt(args[3], Mul(args[4], args[5])) => returned = Zero

\* A motor starved of current: 200 A through its winding drop more than the
\* positive supply voltage.
C24_Witness ==
    /\ Called("calcMotorRPM")
    /\ Lt(Zero, args[2]) /\ Lt(Zero, args[3])
    /\ Lt(args[3], Mul(args[4], args[5]))
    /\ returned = Zero

\* C25: with a positive total weight and a positive motor count, a passing
\* hoverThrottleOk comes with a passing twrOk, the thrust-to-weight ratio
\* being above 2.7 whenever the hover throttle is below 60.
C25_HoverThrottleOkImpliesTwrOk ==
    ( /\ ~results.threw
      /\ Lt(Zero, results.r.totalWeightKg)
      /\ Lt(Zero, results.locals.numMotors)
      /\ results.validations.hoverThrottleOk )
    => /\ results.validations.twrOk
       /\ Lt(Dec(27, 1), results.r.twr)

\* A build that hovers below 60 percent, and passes both checks.
C25_Witness ==
    /\ ~results.threw
    /\ Lt(Zero, results.r.totalWeightKg)
    /\ Lt(Zero, results.locals.numMotors)
    /\ Lt(Zero, results.r.hoverThrottle)
    /\ results.validations.hoverThrottleOk
    /\ results.validations.twrOk

\* C26: with a positive total weight and at least one motor, a hover throttle
\* below 100 gives a hover thrust per motor that, times the motor count and
\* the coaxial factor, is the weight times g (to within 1 percent, the
\* arithmetic keeping four digits); the hover throttle is 100 exactly when twr
\* is 1 or less, and the hover thrust is then the maximum thrust.
C26_HoverCarriesWeight ==
    (~results.threw /\ Lt(Zero, results.r.totalWeightKg) /\ Ge(results.locals.numMotors, Num(1))) =>
        LET r == results.r
            l == results.locals
            carried == Mul(Mul(l.hoverThrustPerMotor, l.numMotors), l.coaxFactor)
            weightN == Mul(r.totalWeightKg, GRAVITY)
        IN /\ Lt(r.hoverThrottle, Num(100)) =>
                  Le(Mul(weightN, Dec(99, 2)), carried) /\ Le(carried, Mul(weightN, Dec(101, 2)))
           /\ r.hoverThrottle = Num(100) <=> Le(r.twr, Num(1))
           /\ r.hoverThrottle = Num(100) => l.hoverThrustPerMotor = l.maxThrustPerMotor

\* C27: for a configuration whose numbers are all 0 or more, with a documented
\* chemistry and a positive power coefficient, the hover point does not exceed
\* the full-throttle point: RPM, current per motor, total current and battery
\* sag at hover are at most those at full throttle, and the battery voltage at
\* full throttle is at most that at hover.
C27_HoverWithinMax ==
    ( /\ SuppliedFinite(config)
      /\ \A section \in SectionNames : \A k \in FieldsOf(section) :
             IsNum(config[section].f[k]) => Ge(config[section].f[k], Zero)
      /\ ~results.threw
      /\ Lt(Zero, results.r.cp) )
    => LET r == results.r
       IN /\ Le(r.hoverRPM, r.maxRPM)
          /\ Le(r.hoverCurrentPerMotor, r.maxCurrentPerMotor)
          /\ Le(r.hoverTotalCurrent, r.maxTotalCurrentDraw)
          /\ Le(r.hoverBatterySag, r.maxBatterySag)
          /\ Le(r.maxBatteryVoltage, r.hoverBatteryVoltage)

\* A build that hovers at part throttle: every hover quantity is strictly
\* inside its full-throttle counterpart.
C27_Witness ==
    /\ SuppliedFinite(config)
    /\ ~results.threw
    /\ Lt(Zero, results.r.hoverRPM)
    /\ Lt(results.r.hoverRPM, results.r.maxRPM)
    /\ Lt(results.r.hoverCurrentPerMotor, results.r.maxCurrentPerMotor)
    /\ Lt(results.r.hoverBatterySag, results.r.maxBatterySag)
    /\ Lt(results.r.maxBatteryVoltage, results.r.hoverBatteryVoltage)

\* The payload weights, in grams, that a configuration is compared with.
HeavierPayloads == {Num(250), Num(1000), Num(5000)}

\* The results for the configuration with the payload weight p.
WithPayload(p) == runFullSimulation(WithField(config, "frame", "payloadWeight", p)).r

\* C28 (as amended): for a configuration whose numbers are all 0 or more (the
\* temperature: above -273.15), the same configuration with a larger payload
\* weight has a twr that is not higher, a hover throttle that is not lower, a
\* total hover current that is not lower and a flight time that is not higher.
C28_PayloadNeverHelps ==
    ( /\ ~results.threw
      /\ \A section \in SectionNames : \A k \in FieldsOf(section) :
             IsNum(Destructure(config, section)[k]) =>
                 IF k = "temperature" THEN Lt(Dec(-27315, 2), Destructure(config, section)[k])
                 ELSE Ge(Destructure(config, section)[k], Zero) )
    => \A p \in HeavierPayloads :
           Lt(OrElse(Destructure(config, "frame").payloadWeight, Zero), p) =>
               /\ ~Lt(results.r.twr, WithPayload(p).twr)
               /\ ~Lt(WithPayload(p).hoverThrottle, results.r.hoverThrottle)
               /\ ~Lt(WithPayload(p).hoverTotalCurrent, results.r.hoverTotalCurrent)
               /\ ~Lt(results.r.flightTimeMin, WithPayload(p).flightTimeMin)

\* A build that hovers at part throttle and, with a payload of 1 kg more than
\* it carries, has a lower twr, a higher throttle and current and a shorter
\* flight.
C28_Witness ==
    /\ ~results.threw
    /\ Lt(OrElse(Destructure(config, "frame").payloadWeight, Zero), Num(1000))
    /\ Lt(WithPayload(Num(1000)).twr, results.r.twr)
    /\ Lt(results.r.hoverThrottle, WithPayload(Num(1000)).hoverThrottle)
    /\ Lt(results.r.hoverTotalCurrent, WithPayload(Num(1000)).hoverTotalCurrent)
    /\ Lt(WithPayload(Num(1000)).flightTimeMin, results.r.flightTimeMin)

\* C28 as stated: for two configurations that differ only in a payload weight
\* of 0 or more, the one with the larger payload has a twr that is not higher,
\* a hover throttle and a total hover current that are not lower and a flight
\* time that is not higher.
C28_PayloadNeverHelpsAnyConfiguration ==
    ( /\ ~results.threw
      /\ Ge(OrElse(Destructure(config, "frame").payloadWeight, Zero), Zero) )
    => \A p \in HeavierPayloads :
           Lt(OrElse(Destructure(config, "frame").payloadWeight, Zero), p) =>
               /\ ~Lt(results.r.twr, WithPayload(p).twr)
               /\ ~Lt(WithPayload(p).hoverThrottle, results.r.hoverThrottle)
               /\ ~Lt(WithPayload(p).hoverTotalCurrent, results.r.hoverTotalCurrent)
               /\ ~Lt(results.r.flightTimeMin, WithPayload(p).flightTimeMin)

\* The fields that no result and no check reads.
InformationalFields ==
    {<<"esc", "burstA">>, <<"motor", "maxPower">>, <<"motor", "statorDiameter">>,
     <<"motor", "statorHeight">>}

\* Two configurations that agree on every field but the informational ones.
DifferOnlyInInformational(a, b) ==
    \A section \in SectionNames :
        /\ a[section].kind # "null"
        /\ b[section].kind # "null"
        /\ \A k \in FieldsOf(section) :
               <<section, k>> \notin InformationalFields =>
                   Destructure(a, section)[k] = Destructure(b, section)[k]

\* C29: two configurations that differ only in esc.burstA, motor.maxPower,
\* motor.statorDiameter or motor.statorHeight give the same result fields, the
\* same validation checks and the same allValid.
C29_InformationalFieldsIgnored ==
    \A i \in 1..Len(calls) : \A j \in 1..Len(calls) :
        DifferOnlyInInformational(calls[i].given, calls[j].given) =>
            /\ calls[i].results.r = calls[j].results.r
            /\ calls[i].results.validations = calls[j].results.validations
            /\ calls[i].results.allValid = calls[j].results.allValid

\* The motor's power rating has been changed to 1 W, below the hover power of
\* each motor, and every check passes as before.
C29_Witness ==
    /\ Len(calls) = 2
    /\ DifferOnlyInInformational(calls[1].given, calls[2].given)
    /\ Destructure(calls[1].given, "motor").maxPower # Num(1)
    /\ Destructure(config, "motor").maxPower = Num(1)
    /\ Lt(Num(1), results.locals.hoverElecPowerPerMotor)
    /\ results.allValid

\* C30: after any sequence of addComponent, updateComponent and
\* deleteComponent calls on a collection seeded with the defaults the stored
\* ids are pairwise distinct; addComponent gives the new row 1 + the largest
\* stored id and returns it; updateComponent never changes a row's id, even
\* when the updates carry another id; updateComponent and deleteComponent for
\* an id no row has return false and leave the stored rows as they were.
C30_IdsStayDistinct ==
    LET IdsOf(items) == {items[i].id : i \in 1..Len(items)}
        PairwiseDistinct(items) ==
            \A i \in 1..Len(items) : \A j \in 1..Len(items) :
                i # j => items[i].id # items[j].id
        Present(items, id) == id.t # "junk" /\ id.n \in IdsOf(items)
        LargestId(items) ==
            IF items = << >> THEN 0
            ELSE CHOOSE m \in IdsOf(items) : \A k \in IdsOf(items) : k <= m
    IN  /\ PairwiseDistinct(loadData(stored))
        /\ \A k \in 1..Len(served) :
            LET c == served[k] IN
            /\ c.op = "addComponent" =>
                /\ c.returned = 1 + LargestId(c.before)
                /\ Len(c.after) = Len(c.before) + 1
                /\ SubSeq(c.after, 1, Len(c.before)) = c.before
                /\ c.after[Len(c.after)].id = c.returned
            /\ c.op = "updateComponent" =>
                IF Present(c.before, c.id)
                THEN /\ c.returned = TRUE
                     /\ Len(c.after) = Len(c.before)
                     /\ \A i \in 1..Len(c.before) : c.after[i].id = c.before[i].id
                ELSE c.returned = FALSE /\ c.after = c.before
            /\ c.op = "deleteComponent" =>
                IF Present(c.before, c.id)
                THEN c.returned = TRUE /\ ~Present(c.after, c.id)
                ELSE c.returned = FALSE /\ c.after = c.before

\* A row was deleted, a row was then added, and a later update that carried
\* another row's id was applied to a stored row.
C30_Witness ==
    /\ Len(served) = 3
    /\ served[1].op = "deleteComponent" /\ served[1].returned = TRUE
    /\ served[2].op = "addComponent"
    /\ served[3].op = "updateComponent" /\ served[3].returned = TRUE
    /\ "id" \in DOMAIN served[3].updates
    /\ served[3].updates.id # Number(served[3].id)

====
